---- MODULE Spec2Model ----
(***************************************************************************)
(* A model of the 8086 decoder and simulator of perfaware/part1/sim:       *)
(* the byte cursor, the opcode dispatcher and its recognizers, the CPU     *)
(* (registers, flags, memory), CPU::exec and the two driver loops of main. *)
(***************************************************************************)
EXTENDS Integers, Sequences, FiniteSets, TLC

VARIABLES
    bytes,        \* the program image read by main: [pat, len]
    cpu,          \* the CPU record: registers, flags, memory
    pc,           \* where the driver is: "run" (loop head), "done", "panic";
                  \* "exec", "executed" around one call of CPU::exec
    inst,         \* the instruction of the last loop iteration
    num_bytes,    \* the length decode_first_at returned with it
    jump_offset,  \* what exec returned for it
    stream,       \* decode mode: the peekable cursor over the whole image
    stream_pc,    \* decode mode: "run", "end" (the stream is over), "panic"
    listing,      \* decode mode: the instructions produced so far
    fetch_at,     \* repeated decode_first_at: the next offset
    fetched,      \* repeated decode_first_at: what each call returned, and where
    is_cycle_estimate,  \* decode mode: the -cycle-estimate flag
    output,       \* decode mode: the lines printed to stdout
    total,        \* decode mode: the running total of estimated cycles
    panic_message \* decode mode: the message of the panic that ended the run

\* what decode mode's listing adds to the state
console == <<is_cycle_estimate, output, total, panic_message>>

vars == <<bytes, cpu, pc, inst, num_bytes, jump_offset, stream, stream_pc, listing,
          fetch_at, fetched, console>>

(***************************************************************************)
(* Bounds of the model.                                                    *)
(***************************************************************************)
\* programs of the simulate-mode catalogue: at most this many encodings
MaxProgram == 3
\* images of the decode-mode catalogue: at most this many encodings
MaxDecode == 2
\* register values tried with exec lie within Edge of 0, 2^8, 2^15, 2^16
Edge == 1

(***************************************************************************)
(* Machine integers.                                                       *)
(***************************************************************************)
U16 == 65536

Bit(n, i) == (n \div (2 ^ i)) % 2

\* a & b on 8-bit values
BitAnd(a, b) ==
    LET f[i \in 0..8] == IF i = 8 THEN 0 ELSE Bit(a, i) * Bit(b, i) * (2 ^ i) + f[i + 1]
    IN  f[0]

\* (b as i8): reinterpret a byte as a signed 8-bit value
as_i8(b) == IF b >= 128 THEN b - 256 ELSE b

\* (n as i16): reinterpret a word as a signed 16-bit value
as_i16(n) == IF n >= 32768 THEN n - 65536 ELSE n

\* (x as u16) of an i32 or i16: truncation to the low 16 bits
as_u16(x) == x % U16

\* u16::count_ones restricted to the low byte, bit by bit
count_ones(lsb) ==
    LET f[i \in 0..8] == IF i = 8 THEN 0 ELSE Bit(lsb, i) + f[i + 1]
    IN  f[0]

None == <<>>
Some(v) == <<v>>

(***************************************************************************)
(* The CPU.                                                                *)
(***************************************************************************)
Reg == {"A", "B", "C", "D", "DI", "SI", "SP", "BP", "IP"}
Flag == {"Parity", "Zero", "Carry", "Sign"}

\* memory: [u8; u16::MAX as usize], kept as the map of its non-zero bytes
MEMORY_SIZE == 65535

RegIndex_new(mnemonic, register, region) ==
    [mnemonic |-> mnemonic, register |-> register, region |-> region]

RegIndex_AL == RegIndex_new("AL", "A", "Low")
RegIndex_AX == RegIndex_new("AX", "A", "Xtended")
RegIndex_BX == RegIndex_new("BX", "B", "Xtended")
RegIndex_CX == RegIndex_new("CX", "C", "Xtended")
RegIndex_DX == RegIndex_new("DX", "D", "Xtended")
RegIndex_SP == RegIndex_new("SP", "SP", "Xtended")
RegIndex_BP == RegIndex_new("BP", "BP", "Xtended")
RegIndex_SI == RegIndex_new("SI", "SI", "Xtended")
RegIndex_DI == RegIndex_new("DI", "DI", "Xtended")
RegIndex_IP == RegIndex_new("IP", "IP", "Xtended")

RegIndex_acc(w) == IF w THEN RegIndex_AX ELSE RegIndex_AL

Loc_Reg(reg) == [kind |-> "Reg", reg |-> reg]
Loc_EAC(eac) == [kind |-> "EAC", eac |-> eac]
Loc_Imm8(n) == [kind |-> "Imm8", n |-> n]
Loc_Imm16(n) == [kind |-> "Imm16", n |-> n]

EAC_new(base, displacement) == [base |-> base, displacement |-> displacement]
EABase(tag) == [tag |-> tag]
DirectAddr(n) == [tag |-> "DirectAddr", n |-> n]

CPU_new ==
    [ memory    |-> <<>>,
      registers |-> [r \in Reg |-> 0],
      flags     |-> [f \in Flag |-> FALSE] ]

\* a variant of check_parity over all sixteen bits
check_parity_word(n) == (count_ones(n % 256) + count_ones(n \div 256)) % 2 = 0

check_parity(n) ==
    LET lsb == n % 256
    IN  count_ones(lsb) % 2 = 0

check_sign(n) == as_i16(n) < 0

get_flag(c, flag) == c.flags[flag]

set_flag(c, flag, val) == [c EXCEPT !.flags[flag] = val]

\* one byte of the memory array
mem_byte(memory, a) == IF a \in DOMAIN memory THEN memory[a] ELSE 0

\* the memory array with byte a set to v
mem_store(memory, a, v) ==
    LET dom == IF v = 0 THEN DOMAIN memory \ {a} ELSE DOMAIN memory \cup {a}
    IN  [x \in dom |-> IF x = a THEN v ELSE memory[x]]

\* self.memory[offset..offset + 2] is in bounds (offset is an i32 cast to usize)
slice_ok(offset) == offset >= 0 /\ offset + 2 <= MEMORY_SIZE

\* [ok, val]: ok is FALSE where the code panics
get_offset(c, base) ==
    CASE base.tag = "DirectAddr" -> [ok |-> TRUE, val |-> base.n]
      [] base.tag = "Bx" -> [ok |-> TRUE, val |-> c.registers["B"]]
      [] base.tag = "BpSi" ->
            [ok |-> TRUE, val |-> (c.registers["BP"] + c.registers["SI"]) % U16]
      [] base.tag = "Bp" -> [ok |-> TRUE, val |-> c.registers["BP"]]
      [] OTHER -> [ok |-> FALSE, val |-> 0]

\* the offset of a memory operand: (get_offset as i32 + displacement as i32)
eac_offset(c, eac) ==
    LET b == get_offset(c, eac.base)
        d == IF eac.displacement = None THEN 0 ELSE eac.displacement[1]
    IN  [ok |-> b.ok, val |-> b.val + d]

\* the little-endian word at offset o: [ok, val], ok FALSE where the slice
\* self.memory[offset..offset + 2] is out of the array
mem_word(c, o) ==
    IF o.ok /\ slice_ok(o.val)
    THEN [ok |-> TRUE,
          val |-> mem_byte(c.memory, o.val) + 256 * mem_byte(c.memory, o.val + 1)]
    ELSE [ok |-> FALSE, val |-> 0]

\* a variant of get_src that sign-extends an Imm8
get_src_signed(c, loc) ==
    CASE loc.kind = "Imm8" -> [ok |-> TRUE, val |-> as_u16(as_i8(loc.n))]
      [] loc.kind = "Imm16" -> [ok |-> TRUE, val |-> loc.n]
      [] loc.kind = "Reg" -> [ok |-> TRUE, val |-> c.registers[loc.reg.register]]
      [] loc.kind = "EAC" -> mem_word(c, eac_offset(c, loc.eac))

\* [ok, val]
get_src(c, loc) ==
    CASE loc.kind = "Imm8" -> [ok |-> TRUE, val |-> loc.n]
      [] loc.kind = "Imm16" -> [ok |-> TRUE, val |-> loc.n]
      [] loc.kind = "Reg" -> [ok |-> TRUE, val |-> c.registers[loc.reg.register]]
      [] loc.kind = "EAC" -> mem_word(c, eac_offset(c, loc.eac))

\* val.to_le_bytes() copied to the two bytes at offset o: [ok, cpu]
mem_store_word(c, o, val) ==
    IF o.ok /\ slice_ok(o.val)
    THEN [ok |-> TRUE,
          cpu |-> [c EXCEPT !.memory =
                     mem_store(mem_store(@, o.val, val % 256), o.val + 1, val \div 256)]]
    ELSE [ok |-> FALSE, cpu |-> c]

\* [ok, cpu]
set_dest(c, loc, val) ==
    CASE loc.kind = "Reg" ->
            [ok |-> TRUE, cpu |-> [c EXCEPT !.registers[loc.reg.register] = val]]
      [] loc.kind = "EAC" -> mem_store_word(c, eac_offset(c, loc.eac), val)
      [] OTHER -> [ok |-> FALSE, cpu |-> c]

\* set_dest's last arm, Loc::Imm8(_) | Loc::Imm16(_) => unreachable!(), is the
\* one taken for loc
set_dest_unreachable(loc) == loc.kind \in {"Imm8", "Imm16"}

ip(c) == get_src(c, Loc_Reg(RegIndex_IP)).val

\* a variant of set_ip that stores nothing
set_ip_dropped(c, v) == c

set_ip(c, v) == set_dest(c, Loc_Reg(RegIndex_IP), v).cpu

(***************************************************************************)
(* Instructions and CPU::exec.                                             *)
(***************************************************************************)
Instruction_Mov(src, dst) == [op |-> "Mov", src |-> src, dst |-> dst]
Instruction_Add(src, dst) == [op |-> "Add", src |-> src, dst |-> dst]
Instruction_Sub(src, dst) == [op |-> "Sub", src |-> src, dst |-> dst]
Instruction_Cmp(src, dst) == [op |-> "Cmp", src |-> src, dst |-> dst]
Instruction_Jump(typ, offset) == [op |-> "Jump", typ |-> typ, offset |-> offset]

\* no instruction yet
NoInst == [op |-> "None"]

\* u16::overflowing_add, u16::overflowing_sub: <<wrapped result, overflowed>>
overflowing_add(a, b) == <<(a + b) % U16, a + b >= U16>>
\* a variant of overflowing_sub that also borrows on equal operands
overflowing_sub_le(a, b) == <<(a - b) % U16, a <= b>>
overflowing_sub(a, b) == <<(a - b) % U16, a < b>>

\* what exec gives back: ok is FALSE where the code panics
ExecPanic(c) == [ok |-> FALSE, cpu |-> c, ret |-> 0]
ExecOk(c, ret) == [ok |-> TRUE, cpu |-> c, ret |-> ret]

\* exec's result once its operand reads (oks) and its store d have happened
exec_end(c, oks, d) == IF oks /\ d.ok THEN ExecOk(d.cpu, 0) ELSE ExecPanic(c)

\* the four set_flag calls of the Add arm, on the CPU d.cpu after the store
add_flags(d, sum, is_overflow) ==
    [ok |-> d.ok,
     cpu |-> set_flag(set_flag(set_flag(set_flag(d.cpu,
                 "Parity", check_parity(sum)),
                 "Carry", is_overflow),
                 "Zero", sum = 0),
                 "Sign", check_sign(sum))]

\* the four set_flag calls of the Sub and Cmp arms
sub_flags(d, diff, is_overflow) ==
    [ok |-> d.ok,
     cpu |-> set_flag(set_flag(set_flag(set_flag(d.cpu,
                 "Zero", diff = 0),
                 "Parity", check_parity(diff)),
                 "Carry", is_overflow),
                 "Sign", check_sign(diff))]

exec_Mov(c, mov) ==
    LET store(src) == exec_end(c, src.ok, set_dest(c, mov.dst, src.val))
    IN  CHOOSE x \in {store(src) : src \in {get_src(c, mov.src)}} : TRUE

exec_Jump(c, jump) ==
    IF jump.typ = "Jnz"
    THEN LET should_jump == ~get_flag(c, "Zero")
         IN  ExecOk(c, IF should_jump THEN jump.offset ELSE 0)
    ELSE ExecPanic(c)

exec_Add(c, add) ==
    LET finish(oks, r) ==
            exec_end(c, oks, add_flags(set_dest(c, add.dst, r[1]), r[1], r[2]))
        compute(src, dst) ==
            CHOOSE x \in {finish(src.ok /\ dst.ok, r) :
                            r \in {overflowing_add(src.val, dst.val)}} : TRUE
    IN  CHOOSE x \in {compute(src, dst) :
                        src \in {get_src(c, add.src)}, dst \in {get_src(c, add.dst)}} : TRUE

exec_Sub(c, sub) ==
    LET finish(oks, r) ==
            exec_end(c, oks, sub_flags(set_dest(c, sub.dst, r[1]), r[1], r[2]))
        compute(src, dst) ==
            CHOOSE x \in {finish(src.ok /\ dst.ok, r) :
                            r \in {overflowing_sub(dst.val, src.val)}} : TRUE
    IN  CHOOSE x \in {compute(src, dst) :
                        src \in {get_src(c, sub.src)}, dst \in {get_src(c, sub.dst)}} : TRUE

exec_Cmp(c, cmp) ==
    LET finish(oks, r) ==
            exec_end(c, oks, sub_flags([ok |-> TRUE, cpu |-> c], r[1], r[2]))
        compute(src, dst) ==
            CHOOSE x \in {finish(src.ok /\ dst.ok, r) :
                            r \in {overflowing_sub(src.val, dst.val)}} : TRUE
    IN  CHOOSE x \in {compute(src, dst) :
                        src \in {get_src(c, cmp.src)}, dst \in {get_src(c, cmp.dst)}} : TRUE

\* CPU::exec: [ok, cpu, ret], ret the jump offset
exec(c, i) ==
    CASE i.op = "Mov" -> exec_Mov(c, i)
      [] i.op = "Jump" -> exec_Jump(c, i)
      [] i.op = "Add" -> exec_Add(c, i)
      [] i.op = "Sub" -> exec_Sub(c, i)
      [] i.op = "Cmp" -> exec_Cmp(c, i)

(***************************************************************************)
(* The byte cursor: the image's byte iterator, CountingIterator around it  *)
(* (decode_first_at) or not (decode mode), and Peekable on top.            *)
(* A cursor is [pos, counted, num_consumed, peeked]; an Option<u8> is      *)
(* None or Some(b); peeked is the Peekable's Option<Option<u8>>.           *)
(***************************************************************************)
ByteAt(img, i) == img.pat[(i % Len(img.pat)) + 1]

\* the cursor of bytes[at..].iter().copied(), counted or not
Cursor_new(at, counted) ==
    [pos |-> at, counted |-> counted, num_consumed |-> 0, peeked |-> None]

\* the slice / vector iterator's next
iter_next(img, c) ==
    IF c.pos < img.len
    THEN [item |-> Some(ByteAt(img, c.pos)), c |-> [c EXCEPT !.pos = @ + 1]]
    ELSE [item |-> None, c |-> c]

\* a variant of count_item that counts every item twice
count_item_twice(r) ==
    IF r.item # None
    THEN [item |-> r.item, c |-> [r.c EXCEPT !.num_consumed = @ + 2]]
    ELSE r

\* CountingIterator::next, given the item r the wrapped iterator returned
count_item(r) ==
    IF r.item # None
    THEN [item |-> r.item, c |-> [r.c EXCEPT !.num_consumed = @ + 1]]
    ELSE r

CountingIterator_next(img, c) == count_item(iter_next(img, c))

\* the next of the iterator under the Peekable
inner_next(img, c) ==
    IF c.counted THEN CountingIterator_next(img, c) ELSE iter_next(img, c)

\* Peekable::peek keeps the item it pulled
keep_peeked(r) == [item |-> r.item, c |-> [r.c EXCEPT !.peeked = Some(r.item)]]

\* Peekable::peek
Peekable_peek(img, c) ==
    IF c.peeked = None
    THEN keep_peeked(inner_next(img, c))
    ELSE [item |-> c.peeked[1], c |-> c]

\* Peekable::next
Peekable_next(img, c) ==
    IF c.peeked # None
    THEN [item |-> c.peeked[1], c |-> [c EXCEPT !.peeked = None]]
    ELSE inner_next(img, c)

\* Option::unwrap of an item: [ok, val, c], ok FALSE where unwrap panics
unwrap(r) ==
    [ok |-> r.item # None, val |-> IF r.item # None THEN r.item[1] ELSE 0, c |-> r.c]

\* bs.next().unwrap().  The cursor is bound through a singleton set, here and
\* below, so that the value read so far is computed once.
next_unwrap(img, c) == CHOOSE x \in {unwrap(Peekable_next(img, at)) : at \in {c}} : TRUE

\* a variant of from_le_bytes with the bytes in the other order
from_be_bytes(lo, hi) == [ok |-> lo.ok /\ hi.ok, val |-> 256 * lo.val + hi.val, c |-> hi.c]

\* u16::from_le_bytes([lo, hi])
from_le_bytes(lo, hi) == [ok |-> lo.ok /\ hi.ok, val |-> lo.val + 256 * hi.val, c |-> hi.c]

consume_u16(img, c) ==
    CHOOSE x \in {from_le_bytes(lo, next_unwrap(img, lo.c)) :
                    lo \in {next_unwrap(img, c)}} : TRUE

\* a read value reinterpreted as signed
signed16(r) == [ok |-> r.ok, val |-> as_i16(r.val), c |-> r.c]
signed8(r) == [ok |-> r.ok, val |-> as_i8(r.val), c |-> r.c]

consume_i16(img, c) == CHOOSE x \in {signed16(v) : v \in {consume_u16(img, c)}} : TRUE

consume_i8(img, c) == signed8(next_unwrap(img, c))

(***************************************************************************)
(* Field parsers.                                                          *)
(***************************************************************************)
parse_reg_field(reg, w) ==
    LET field(r) ==
            CASE r = 0 -> RegIndex_acc(w)
              [] r = 1 -> IF w THEN RegIndex_CX ELSE RegIndex_new("CL", "C", "Low")
              [] r = 2 -> IF w THEN RegIndex_DX ELSE RegIndex_new("DL", "D", "Low")
              [] r = 3 -> IF w THEN RegIndex_BX ELSE RegIndex_new("BL", "B", "Low")
              [] r = 4 -> IF w THEN RegIndex_SP ELSE RegIndex_new("AH", "A", "High")
              [] r = 5 -> IF w THEN RegIndex_BP ELSE RegIndex_new("CH", "C", "High")
              [] r = 6 -> IF w THEN RegIndex_SI ELSE RegIndex_new("DH", "D", "High")
              [] r = 7 -> IF w THEN RegIndex_DI ELSE RegIndex_new("BH", "B", "High")
    IN  CHOOSE x \in {field(r) : r \in {reg}} : TRUE

\* the base of each R/M value; 6 is Bp, reached with a displacement only
r_m_base(r_m_bits) ==
    CASE r_m_bits = 0 -> "BxSi"
      [] r_m_bits = 1 -> "BxDi"
      [] r_m_bits = 2 -> "BpSi"
      [] r_m_bits = 3 -> "BpDi"
      [] r_m_bits = 4 -> "Si"
      [] r_m_bits = 5 -> "Di"
      [] r_m_bits = 6 -> "Bp"
      [] r_m_bits = 7 -> "Bx"

\* [ok, eac]: ok FALSE at the unreachable!() arm (R/M 110 with no displacement)
parse_r_m_field(r_m_bits, displacement) ==
    [ok |-> ~(r_m_bits = 6 /\ displacement = None),
     eac |-> EAC_new(EABase(r_m_base(r_m_bits)), displacement)]

\* a variant of parse_r_m_direct_addr that gives a zero displacement
parse_r_m_direct_addr_displaced(direct_addr) == EAC_new(DirectAddr(direct_addr), Some(0))

parse_r_m_direct_addr(direct_addr) == EAC_new(DirectAddr(direct_addr), None)

\* the operand of a read direct address a: [ok, loc, c]
direct_loc(a) == [ok |-> a.ok, loc |-> Loc_EAC(parse_r_m_direct_addr(a.val)), c |-> a.c]

\* the operand of R/M bits and a read displacement d (signed): [ok, loc, c]
disp_loc(r_m_bits, d) ==
    LET with(f) == [ok |-> d.ok /\ f.ok, loc |-> Loc_EAC(f.eac), c |-> d.c]
    IN  with(parse_r_m_field(r_m_bits, Some(d.val)))

\* the operand of R/M bits without displacement: [ok, loc, c]
plain_loc(r_m_bits, c) ==
    LET with(f) == [ok |-> f.ok, loc |-> Loc_EAC(f.eac), c |-> c]
    IN  with(parse_r_m_field(r_m_bits, None))

\* [ok, loc, c]
parse_r_m_loc(img, c, mod_bits, r_m_bits, w) ==
    LET loc(mod, r_m) ==
            CASE mod = 3 ->
                    [ok |-> TRUE, loc |-> Loc_Reg(parse_reg_field(r_m, w)), c |-> c]
              [] mod = 0 /\ r_m = 6 ->
                    CHOOSE x \in {direct_loc(a) : a \in {consume_u16(img, c)}} : TRUE
              [] mod = 0 /\ r_m # 6 -> plain_loc(r_m, c)
              [] mod = 1 ->
                    CHOOSE x \in {disp_loc(r_m, signed8(b)) :
                                    b \in {next_unwrap(img, c)}} : TRUE
              [] mod = 2 ->
                    CHOOSE x \in {disp_loc(r_m, d) : d \in {consume_i16(img, c)}} : TRUE
    IN  CHOOSE x \in {loc(mod, r_m) : mod \in {mod_bits}, r_m \in {r_m_bits}} : TRUE

(***************************************************************************)
(* The recognizers.  Each gives [st, why, inst, c]: st is "some" (an       *)
(* instruction was decoded), "none" (the byte is not the recognizer's,     *)
(* nothing consumed) or "panic"; why tells a panic's kind: "unwrap" (an    *)
(* unwrap of None) or "no_match" (the dispatcher's panic!("0b{:b}")).      *)
(***************************************************************************)
ParseSome(i, c) == [st |-> "some", why |-> "", inst |-> i, c |-> c]
ParseNone(c) == [st |-> "none", why |-> "", inst |-> NoInst, c |-> c]
ParsePanic(why, c) == [st |-> "panic", why |-> why, inst |-> NoInst, c |-> c]

\* JumpType::ALL with each variant's discriminant
JumpType_ALL ==
    << <<"Jnz", 117>>, <<"Je", 116>>, <<"Jl", 124>>, <<"Jle", 126>>, <<"Jb", 114>>,
       <<"Jbe", 118>>, <<"Jp", 122>>, <<"Jo", 112>>, <<"Js", 120>>, <<"Jnl", 125>>,
       <<"Jg", 127>>, <<"Jnb", 115>>, <<"Ja", 119>>, <<"Jnp", 123>>, <<"Jno", 113>>,
       <<"Jns", 121>>, <<"Loop", 226>>, <<"Loopz", 225>>, <<"Loopnz", 224>>,
       <<"Jcxz", 227>> >>

\* ALL.iter().find(..): the first entry of table with discriminant d, if any
find_in(table, d) ==
    LET first(hits) ==
            IF hits = {} THEN None
            ELSE Some(table[CHOOSE i \in hits : \A j \in hits : i <= j][1])
        matching(v) == {i \in 1..Len(table) : table[i][2] = v}
    IN  CHOOSE x \in {first(hits) : hits \in {matching(v) : v \in {d}}} : TRUE

JumpType_find(b) == find_in(JumpType_ALL, b)

try_parse_jump(img, c, b) ==
    LET done(typ, off) ==
            IF ~off.ok THEN ParsePanic("unwrap", c)
            ELSE ParseSome(Instruction_Jump(typ[1], off.val), off.c)
        first(typ, b0) ==
            IF typ = None THEN ParseNone(c)
            ELSE IF ~b0.ok THEN ParsePanic("unwrap", c)
            ELSE CHOOSE x \in {done(typ, off) : off \in {consume_i8(img, b0.c)}} : TRUE
    IN  CHOOSE x \in {first(JumpType_find(b), b0) : b0 \in {next_unwrap(img, c)}} : TRUE

\* BinOpCode::ALL with each variant's discriminant
BinOpCode_ALL == << <<"Add", 0>>, <<"Sub", 5>>, <<"Cmp", 7>> >>

BinOpCode_find(binop) == find_in(BinOpCode_ALL, binop)

\* BinopParams::from: [ok, params], ok FALSE where code.unwrap() panics
BinopParams_from(is_mov, code) ==
    IF is_mov THEN [ok |-> TRUE, params |-> "Mov"]
    ELSE IF code = None THEN [ok |-> FALSE, params |-> "Mov"]
    ELSE [ok |-> TRUE, params |-> code[1]]

\* a variant of binop_to_instruction whose Mov takes the operands reversed
binop_to_instruction_mov_reversed(params, src, dst) ==
    CASE params = "Mov" -> Instruction_Mov(dst, src)
      [] params = "Add" -> Instruction_Add(src, dst)
      [] params = "Sub" -> Instruction_Sub(src, dst)
      [] params = "Cmp" -> Instruction_Cmp(src, dst)

binop_to_instruction(params, src, dst) ==
    CASE params = "Mov" -> Instruction_Mov(src, dst)
      [] params = "Add" -> Instruction_Add(src, dst)
      [] params = "Sub" -> Instruction_Sub(src, dst)
      [] params = "Cmp" -> Instruction_Cmp(src, dst)

MOV_OPCODE == 99
MOV_OPCODE_LEN == 7
IMM_TO_R_M_OPCODE == 32
IMM_TO_R_M_OPCODE_LEN == 6

\* a read word as an Imm16 source, a read byte as an Imm16 sign-extended from
\* it, a read byte as an Imm8 source: [ok, loc, c]
imm16_loc(v) == [ok |-> v.ok, loc |-> Loc_Imm16(v.val), c |-> v.c]
\* a variant of imm16_sx_loc that extends the byte with zeros
imm16_zx_loc(v) == [ok |-> v.ok, loc |-> Loc_Imm16(v.val), c |-> v.c]

imm16_sx_loc(v) == [ok |-> v.ok, loc |-> Loc_Imm16(as_u16(as_i8(v.val))), c |-> v.c]
imm8_loc(v) == [ok |-> v.ok, loc |-> Loc_Imm8(v.val), c |-> v.c]

\* the immediate of parse_imm_to_r_m: [ok, loc, c]
imm_to_r_m_src(img, c, w, s) ==
    IF w /\ ~s THEN CHOOSE x \in {imm16_loc(v) : v \in {consume_u16(img, c)}} : TRUE
    ELSE IF w /\ s THEN imm16_sx_loc(next_unwrap(img, c))
    ELSE imm8_loc(next_unwrap(img, c))

\* the instruction of decoded operands, or the panic of a failed read
build(c, oks, params, src, dst, after) ==
    IF ~(oks /\ params.ok) THEN ParsePanic("unwrap", c)
    ELSE ParseSome(binop_to_instruction(params.params, src, dst), after)

parse_imm_to_r_m(img, c, b) ==
    LET is_mov == b \div (2 ^ (8 - MOV_OPCODE_LEN)) = MOV_OPCODE
        is_other_imm_to_r_m == b \div (2 ^ (8 - IMM_TO_R_M_OPCODE_LEN)) = IMM_TO_R_M_OPCODE
        finish(oks, binop, r_m_loc, src) ==
            build(c, oks /\ r_m_loc.ok /\ src.ok, BinopParams_from(is_mov, binop),
                  src.loc, r_m_loc.loc, src.c)
        immediate(oks, w, s, binop, r_m_loc) ==
            CHOOSE x \in {finish(oks, binop, r_m_loc, src) :
                            src \in {imm_to_r_m_src(img, r_m_loc.c, w, s)}} : TRUE
        operand(oks, w, s, b1) ==
            CHOOSE x \in {immediate(oks /\ b1.ok, w, s,
                                     BinOpCode_find(BitAnd(b1.val \div 8, 7)), r_m_loc) :
                            r_m_loc \in {parse_r_m_loc(img, b1.c, BitAnd(b1.val, 192) \div 64,
                                                       BitAnd(b1.val, 7), w)}} : TRUE
        second(b0) ==
            CHOOSE x \in {operand(b0.ok, BitAnd(b0.val, 1) # 0,
                                   ~is_mov /\ BitAnd(b0.val, 2) # 0, b1) :
                            b1 \in {next_unwrap(img, b0.c)}} : TRUE
    IN  IF ~is_mov /\ ~is_other_imm_to_r_m THEN ParseNone(c)
        ELSE CHOOSE x \in {second(b0) : b0 \in {next_unwrap(img, c)}} : TRUE

\* a variant of r_m_to_r_m_binop without the test of the bits around BINOP
r_m_to_r_m_binop_unmasked(opcode) == BinOpCode_find(BitAnd(opcode \div 2, 7))

r_m_to_r_m_binop(opcode) ==
    IF BitAnd(49, opcode) = 0 THEN BinOpCode_find(BitAnd(opcode \div 2, 7)) ELSE None

r_m_to_r_m(img, c, b, is_mov, binop) ==
    LET finish(oks, d_bit, reg_register, r_m_loc) ==
            build(c, oks /\ r_m_loc.ok, BinopParams_from(is_mov, binop),
                  IF d_bit THEN r_m_loc.loc ELSE Loc_Reg(reg_register),
                  IF d_bit THEN Loc_Reg(reg_register) ELSE r_m_loc.loc,
                  r_m_loc.c)
        operand(oks, w, d_bit, b1) ==
            CHOOSE x \in {finish(oks /\ b1.ok, d_bit,
                                  parse_reg_field(BitAnd(b1.val, 56) \div 8, w), r_m_loc) :
                            r_m_loc \in {parse_r_m_loc(img, b1.c, BitAnd(b1.val, 192) \div 64,
                                                       BitAnd(b1.val, 7), w)}} : TRUE
        second(b0) ==
            CHOOSE x \in {operand(b0.ok, BitAnd(b0.val, 1) # 0, BitAnd(b0.val, 2) # 0, b1) :
                            b1 \in {next_unwrap(img, b0.c)}} : TRUE
    IN  IF ~is_mov /\ binop = None THEN ParseNone(c)
        ELSE CHOOSE x \in {second(b0) : b0 \in {next_unwrap(img, c)}} : TRUE

parse_r_m_to_r_m(img, c, b) ==
    CHOOSE x \in {r_m_to_r_m(img, c, b, (b \div 4) = 34, binop) :
                    binop \in {r_m_to_r_m_binop(b \div 4)}} : TRUE

\* a one-byte (Imm8) or two-byte (Imm16) immediate, by w: [ok, loc, c]
imm_by_width(img, c, w) ==
    IF w THEN CHOOSE x \in {imm16_loc(v) : v \in {consume_u16(img, c)}} : TRUE
    ELSE imm8_loc(next_unwrap(img, c))

parse_imm_to_acc(img, c, b) ==
    LET finish(oks, binop, w, src) ==
            build(c, oks /\ src.ok, [ok |-> TRUE, params |-> binop[1]],
                  src.loc, Loc_Reg(RegIndex_acc(w)), src.c)
        immediate(binop, b0, w) ==
            CHOOSE x \in {finish(b0.ok, binop, w, src) :
                            src \in {imm_by_width(img, b0.c, w)}} : TRUE
        first(binop, b0) == immediate(binop, b0, BitAnd(b0.val, 1) # 0)
    IN  IF BitAnd(b, 198) # 4 THEN ParseNone(c)
        ELSE IF BinOpCode_find(BitAnd(b \div 8, 7)) = None THEN ParseNone(c)
        ELSE CHOOSE x \in {first(BinOpCode_find(BitAnd(b \div 8, 7)), b0) :
                            b0 \in {next_unwrap(img, c)}} : TRUE

parse_imm_to_reg_mov(img, c) ==
    LET finish(oks, dst, src) ==
            build(c, oks /\ src.ok, [ok |-> TRUE, params |-> "Mov"],
                  src.loc, Loc_Reg(dst), src.c)
        immediate(b0, w) ==
            CHOOSE x \in {finish(b0.ok, parse_reg_field(BitAnd(b0.val, 7), w), src) :
                            src \in {imm_by_width(img, b0.c, w)}} : TRUE
        first(b0) == immediate(b0, BitAnd(b0.val, 8) # 0)
    IN  CHOOSE x \in {first(b0) : b0 \in {next_unwrap(img, c)}} : TRUE

parse_mem_to_acc_mov(img, c) ==
    LET finish(b0, addr) ==
            build(c, b0.ok /\ addr.ok, [ok |-> TRUE, params |-> "Mov"],
                  Loc_EAC(EAC_new(DirectAddr(addr.val), None)),
                  Loc_Reg(RegIndex_acc(BitAnd(b0.val, 1) # 0)), addr.c)
        first(b0) ==
            CHOOSE x \in {finish(b0, addr) : addr \in {consume_u16(img, b0.c)}} : TRUE
    IN  CHOOSE x \in {first(b0) : b0 \in {next_unwrap(img, c)}} : TRUE

parse_acc_to_mem_mov(img, c) ==
    LET finish(b0, addr) ==
            build(c, b0.ok /\ addr.ok, [ok |-> TRUE, params |-> "Mov"],
                  Loc_Reg(RegIndex_acc(BitAnd(b0.val, 1) # 0)),
                  Loc_EAC(EAC_new(DirectAddr(addr.val), None)), addr.c)
        first(b0) ==
            CHOOSE x \in {finish(b0, addr) : addr \in {consume_u16(img, b0.c)}} : TRUE
    IN  CHOOSE x \in {first(b0) : b0 \in {next_unwrap(img, c)}} : TRUE

decode_mov(img, c, byte) ==
    IF byte \div 16 = 11 THEN parse_imm_to_reg_mov(img, c)
    ELSE IF byte \div 2 = 80 THEN parse_mem_to_acc_mov(img, c)
    ELSE IF byte \div 2 = 81 THEN parse_acc_to_mem_mov(img, c)
    ELSE ParseNone(c)

(***************************************************************************)
(* The dispatcher: one call of decode_stream's closure.  st is also "end"  *)
(* when the peek finds the cursor empty (the stream is over).              *)
(***************************************************************************)
\* the result r of a recognizer if it matched, else what the rest gives
or_else(r, rest) ==
    CHOOSE x \in {IF got.st # "none" THEN got ELSE rest : got \in {r}} : TRUE

dispatch(img, c, byte) ==
    or_else(parse_imm_to_r_m(img, c, byte),
    or_else(parse_r_m_to_r_m(img, c, byte),
    or_else(parse_imm_to_acc(img, c, byte),
    or_else(try_parse_jump(img, c, byte),
    or_else(decode_mov(img, c, byte),
            ParsePanic("no_match", c))))))

\* the closure after its peek p
after_peek(img, p) ==
    IF p.item = None
    THEN [st |-> "end", why |-> "", inst |-> NoInst, c |-> p.c]
    ELSE dispatch(img, p.c, p.item[1])

decode_stream(img, c) ==
    CHOOSE x \in {after_peek(img, p) : p \in {Peekable_peek(img, c)}} : TRUE

\* a variant of first_of that counts the peeked byte once more
first_of_recounted(img, at, r) ==
    [ok |-> at <= img.len /\ r.st = "some", inst |-> r.inst,
     num_bytes |-> r.c.num_consumed + 1]

\* the (instruction, bytes.num_consumed) pair of a decoding r from offset at:
\* [ok, inst, num_bytes], ok FALSE where decoding panics
first_of(img, at, r) ==
    [ok |-> at <= img.len /\ r.st = "some", inst |-> r.inst,
     num_bytes |-> r.c.num_consumed]

decode_first_at(img, at) ==
    CHOOSE x \in {first_of(img, at, r) :
                    r \in {decode_stream(img, Cursor_new(at, TRUE))}} : TRUE

(***************************************************************************)
(* Printing, as far as the driver depends on it: Jump::asm adds the offset *)
(* to 2 in i8 and EAC::asm negates a negative i16 displacement; either     *)
(* overflows for some operands, which panics in a build with overflow      *)
(* checks and wraps in one without.                                        *)
(***************************************************************************)
loc_asm_overflows(loc) ==
    loc.kind = "EAC" /\ loc.eac.displacement = Some(-32768)

asm_overflows(i) ==
    IF i.op = "Jump" THEN 2 + i.offset > 127
    ELSE loc_asm_overflows(i.src) \/ loc_asm_overflows(i.dst)

(***************************************************************************)
(* The printer.  A text is a string; asm gives the set of outcomes the     *)
(* build can produce, each [ok, text]: the printed text, or (ok FALSE) the *)
(* message of the panic.  Arithmetic that overflows panics in a build with *)
(* overflow checks and wraps in a build without.                           *)
(***************************************************************************)
AsmText(text) == [ok |-> TRUE, text |-> text]
AsmPanic(message) == [ok |-> FALSE, text |-> message]

\* str::to_lowercase on what Loc::asm returns: register mnemonics are the
\* only texts with upper-case letters
to_lowercase(s) ==
    CASE s = "AL" -> "al" [] s = "AX" -> "ax" [] s = "BL" -> "bl" [] s = "BX" -> "bx"
      [] s = "CL" -> "cl" [] s = "CX" -> "cx" [] s = "DL" -> "dl" [] s = "DX" -> "dx"
      [] s = "AH" -> "ah" [] s = "BH" -> "bh" [] s = "CH" -> "ch" [] s = "DH" -> "dh"
      [] s = "SP" -> "sp" [] s = "BP" -> "bp" [] s = "SI" -> "si" [] s = "DI" -> "di"
      [] s = "IP" -> "ip"
      [] OTHER -> s

RegIndex_asm(reg) == reg.mnemonic

EABase_asm(base) ==
    CASE base.tag = "BxSi" -> "bx + si"
      [] base.tag = "BxDi" -> "bx + di"
      [] base.tag = "BpSi" -> "bp + si"
      [] base.tag = "BpDi" -> "bp + di"
      [] base.tag = "Si" -> "si"
      [] base.tag = "Di" -> "di"
      [] base.tag = "Bx" -> "bx"
      [] base.tag = "Bp" -> "bp"
      [] base.tag = "DirectAddr" -> ToString(base.n)

\* -d in i16
i16_neg(d) ==
    IF -d > 32767
    THEN {AsmPanic("attempt to negate with overflow"), AsmText(ToString(as_i16((-d) % U16)))}
    ELSE {AsmText(ToString(-d))}

EAC_asm(eac) ==
    IF eac.displacement = None
    THEN {AsmText("[" \o EABase_asm(eac.base) \o "]")}
    ELSE IF eac.displacement[1] >= 0
    THEN {AsmText("[" \o EABase_asm(eac.base) \o " + " \o ToString(eac.displacement[1]) \o "]")}
    ELSE {IF n.ok THEN AsmText("[" \o EABase_asm(eac.base) \o " - " \o n.text \o "]") ELSE n :
            n \in i16_neg(eac.displacement[1])}

Loc_asm(loc) ==
    CASE loc.kind = "Reg" -> {AsmText(RegIndex_asm(loc.reg))}
      [] loc.kind = "Imm8" -> {AsmText("byte " \o ToString(loc.n))}
      [] loc.kind = "Imm16" -> {AsmText("word " \o ToString(loc.n))}
      [] loc.kind = "EAC" -> EAC_asm(loc.eac)

\* format!("<mnemonic> {}, {}", dst.asm().to_lowercase(), src.asm().to_lowercase())
\* of Mov::asm, Add::asm, Sub::asm and Cmp::asm
binop_asm(mnemonic, src, dst) ==
    {IF ~d.ok THEN d
     ELSE IF ~s.ok THEN s
     ELSE AsmText(mnemonic \o " " \o to_lowercase(d.text) \o ", " \o to_lowercase(s.text)) :
        d \in Loc_asm(dst), s \in Loc_asm(src)}

Jump_mnemonic(typ) ==
    CASE typ = "Jnz" -> "jnz" [] typ = "Je" -> "je" [] typ = "Jl" -> "jl"
      [] typ = "Jle" -> "jle" [] typ = "Jb" -> "jb" [] typ = "Jbe" -> "jbe"
      [] typ = "Jp" -> "jp" [] typ = "Jo" -> "jo" [] typ = "Js" -> "js"
      [] typ = "Jnl" -> "jnl" [] typ = "Jg" -> "jg" [] typ = "Jnb" -> "jnb"
      [] typ = "Ja" -> "ja" [] typ = "Jnp" -> "jnp" [] typ = "Jno" -> "jno"
      [] typ = "Jns" -> "jns" [] typ = "Loop" -> "loop" [] typ = "Loopz" -> "loopz"
      [] typ = "Loopnz" -> "loopnz" [] typ = "Jcxz" -> "jcxz"

Jump_instruction_size == 2

\* a + b in i8: [ok, val], ok FALSE being the panic of an overflow check
i8_add(a, b) ==
    IF a + b > 127 \/ a + b < -128
    THEN {[ok |-> FALSE, val |-> 0], [ok |-> TRUE, val |-> as_i8((a + b) % 256)]}
    ELSE {[ok |-> TRUE, val |-> a + b]}

Jump_asm(jump) ==
    {IF ~nasm_offset.ok THEN AsmPanic("attempt to add with overflow")
     ELSE IF nasm_offset.val >= 0
     THEN AsmText(Jump_mnemonic(jump.typ) \o " $+" \o ToString(nasm_offset.val))
     ELSE AsmText(Jump_mnemonic(jump.typ) \o " $" \o ToString(nasm_offset.val)) :
        nasm_offset \in i8_add(Jump_instruction_size, jump.offset)}

Instruction_asm(i) ==
    CASE i.op = "Mov" -> binop_asm("mov", i.src, i.dst)
      [] i.op = "Add" -> binop_asm("add", i.src, i.dst)
      [] i.op = "Sub" -> binop_asm("sub", i.src, i.dst)
      [] i.op = "Cmp" -> binop_asm("cmp", i.src, i.dst)
      [] i.op = "Jump" -> Jump_asm(i)

(***************************************************************************)
(* The cycle estimator: [ok, val, message], ok FALSE where it panics.      *)
(***************************************************************************)
Estimate(val) == [ok |-> TRUE, val |-> val, message |-> ""]
EstimatePanic(message) == [ok |-> FALSE, val |-> 0, message |-> message]

RegIndex_is_acc(reg) == reg.register = "A"

estimate_8086_eac(eac) ==
    LET base == eac.base.tag
        d == eac.displacement
    IN  CASE base = "DirectAddr" /\ d = None -> Estimate(6)
          [] base \in {"Bx", "Bp", "Si", "Di"} /\ (d = None \/ d = Some(0)) -> Estimate(5)
          [] base \in {"Bx", "Bp", "Si", "Di"} /\ d # None /\ d # Some(0) -> Estimate(9)
          [] base \in {"BpDi", "BxSi"} /\ d = None -> Estimate(7)
          [] base \in {"BpSi", "BxDi"} /\ d = None -> Estimate(8)
          [] base \in {"BpDi", "BxSi"} /\ d # None -> Estimate(11)
          [] base \in {"BpSi", "BxDi"} /\ d # None -> Estimate(12)
          [] base = "DirectAddr" /\ d # None ->
                EstimatePanic("direct addr + displacement is impossible")

\* n + estimate_8086_eac(eac)
plus_eac(n, eac) ==
    LET sum(e) == IF e.ok THEN Estimate(n + e.val) ELSE e
    IN  sum(estimate_8086_eac(eac))

\* the catch-all arms; text is inst.asm()
not_implemented(text) ==
    EstimatePanic("counting cycles for " \o text \o " is not implemented yet")

\* estimate_8086(&inst), text being inst.asm()
estimate_8086(i, text) ==
    LET imm(loc) == loc.kind \in {"Imm8", "Imm16"}
        dst == i.dst.kind
        src == i.src.kind
    IN  CASE i.op = "Mov" /\ dst = "EAC" /\ src = "Reg" /\ RegIndex_is_acc(i.src.reg) ->
                Estimate(10)
          [] i.op = "Mov" /\ dst = "Reg" /\ src = "EAC" /\ RegIndex_is_acc(i.dst.reg) ->
                Estimate(10)
          [] i.op = "Mov" /\ dst = "Reg" /\ src = "Reg" -> Estimate(2)
          [] i.op = "Mov" /\ dst = "Reg" /\ src = "EAC" /\ ~RegIndex_is_acc(i.dst.reg) ->
                plus_eac(8, i.src.eac)
          [] i.op = "Mov" /\ dst = "EAC" /\ src = "Reg" /\ ~RegIndex_is_acc(i.src.reg) ->
                plus_eac(9, i.dst.eac)
          [] i.op = "Mov" /\ dst = "Reg" /\ imm(i.src) -> Estimate(4)
          [] i.op = "Mov" /\ dst = "EAC" /\ imm(i.src) -> plus_eac(10, i.dst.eac)
          [] i.op = "Add" /\ dst = "Reg" /\ src = "Reg" -> Estimate(3)
          [] i.op = "Add" /\ dst = "Reg" /\ src = "EAC" -> plus_eac(9, i.src.eac)
          [] i.op = "Add" /\ dst = "EAC" /\ src = "Reg" -> plus_eac(16, i.dst.eac)
          [] i.op = "Add" /\ dst = "Reg" /\ imm(i.src) -> Estimate(4)
          [] i.op = "Add" /\ dst = "EAC" /\ imm(i.src) -> plus_eac(17, i.dst.eac)
          [] OTHER -> not_implemented(text)

(***************************************************************************)
(* The images the model runs.                                              *)
(***************************************************************************)
Image(pat) == [pat |-> pat, len |-> Len(pat)]

\* an image of len bytes repeating pat
Repeated(pat, len) == [pat |-> pat, len |-> len]

\* the encodings the simulated programs are built from: no backward jump
SimEncodings ==
    { <<184, 1, 0>>,     \* mov ax, 1
      <<187, 2, 0>>,     \* mov bx, 2
      <<1, 216>>,        \* add ax, bx
      <<41, 216>>,       \* sub ax, bx
      <<57, 216>>,       \* cmp ax, bx
      <<137, 7>>,        \* mov [bx], ax
      <<117, 2>>,        \* jnz $+4
      <<116, 0>>,        \* je $+2
      <<240>> }          \* no recognizer's byte

Programs(encodings, n) ==
    LET P[k \in 0..n] ==
            IF k = 0 THEN {<<>>}
            ELSE P[k - 1] \cup {p \o e : p \in P[k - 1], e \in encodings}
    IN  P[n]

\* mov ax, 1; mov bx, 2; add ax, bx
ScenarioImage == Image(<<184, 1, 0, 187, 2, 0, 1, 216>>)

\* programs with a backward jump, an overflowing print, an unimplemented base,
\* a cut instruction
LoopImages ==
    { Image(<<117, 253>>),                     \* jnz $-1
      Image(<<117, 254>>),                     \* jnz $+0
      Image(<<184, 2, 0, 131, 232, 1, 117, 251>>),  \* mov ax, 2; sub ax, 1; jnz $-3
      Image(<<184, 1, 0, 131, 232, 1, 117, 251>>),  \* mov ax, 1; sub ax, 1; jnz $-3
      Image(<<117, 127>>),                     \* jnz $+129
      Image(<<3, 0>>),                         \* add ax, [bx + si]
      Image(<<139, 71, 255>>),                 \* mov ax, [bx - 1]
      Image(<<184, 1>>) }                      \* mov ax, .. cut short

SimImages ==
    {Image(p) : p \in Programs(SimEncodings, MaxProgram)}
        \cup {ScenarioImage} \cup LoopImages

\* add word [bp + 0], 0 repeated: 2^16 bytes, and one byte less (the last
\* instruction cut)
WrapImage == Repeated(<<131, 70, 0, 0>>, U16)
CutImage == Repeated(<<131, 70, 0, 0>>, U16 - 1)

LongImages == {WrapImage, CutImage}

\* the listing's state where no listing is made
NoConsole ==
    /\ is_cycle_estimate = FALSE
    /\ output = <<>>
    /\ total = 0
    /\ panic_message = ""

(***************************************************************************)
(* Simulate mode: main's loop                                              *)
(*   while (cpu.ip() as usize) < bytes.len() { decode_first_at; println;   *)
(*       exec; set_ip }                                                    *)
(***************************************************************************)
InitOn(images) ==
    /\ bytes \in images
    /\ cpu = CPU_new
    /\ pc = "run"
    /\ inst = NoInst
    /\ num_bytes = 0
    /\ jump_offset = 0
    /\ stream = Cursor_new(0, FALSE)
    /\ stream_pc = "run"
    /\ listing = <<>>
    /\ fetch_at = 0
    /\ fetched = <<>>
    /\ NoConsole

\* a variant of next_ip that leaves the jump offset out
next_ip_without_offset(c, off, n) == as_u16(ip(c) + n)

\* the IP main stores after exec returned jump_offset for an instruction of
\* num_bytes bytes: ((cpu.ip() as i32) + jump_offset + num_bytes) as u16
next_ip(c, off, n) == as_u16(ip(c) + off + n)

\* what exec's result r makes of the loop's state [pc, cpu, inst, num_bytes,
\* jump_offset] (st) after the instruction d was decoded and printed
executed(st, d, r) ==
    IF ~r.ok
    THEN [st EXCEPT !.pc = "panic", !.inst = d.inst, !.num_bytes = d.num_bytes]
    ELSE [pc |-> "run", inst |-> d.inst, num_bytes |-> d.num_bytes,
          jump_offset |-> r.ret,
          cpu |-> set_ip(r.cpu, next_ip(r.cpu, r.ret, d.num_bytes))]

\* the states one iteration can leave once decode_first_at gave d.  An
\* instruction whose printing overflows panics or not, by the build.
iteration(st, d) ==
    IF ~d.ok THEN {[st EXCEPT !.pc = "panic"]}
    ELSE (IF asm_overflows(d.inst) THEN {[st EXCEPT !.pc = "panic"]} ELSE {})
         \cup {executed(st, d, r) : r \in {exec(st.cpu, d.inst)}}

\* the body of main's while loop on image img
loop_body(img, st) == UNION {iteration(st, d) : d \in {decode_first_at(img, ip(st.cpu))}}

\* one iteration of the loop
Step ==
    /\ pc = "run"
    /\ ip(cpu) < bytes.len
    /\ \E o \in loop_body(bytes, [pc |-> pc, cpu |-> cpu, inst |-> inst,
                                  num_bytes |-> num_bytes, jump_offset |-> jump_offset]) :
          /\ pc' = o.pc
          /\ cpu' = o.cpu
          /\ inst' = o.inst
          /\ num_bytes' = o.num_bytes
          /\ jump_offset' = o.jump_offset
    /\ UNCHANGED <<bytes, stream, stream_pc, listing, fetch_at, fetched, console>>

\* the loop's exit: the final registers are printed
Halt ==
    /\ pc = "run"
    /\ ~(ip(cpu) < bytes.len)
    /\ pc' = "done"
    /\ UNCHANGED <<bytes, cpu, inst, num_bytes, jump_offset, stream, stream_pc,
                   listing, fetch_at, fetched, console>>

Next == Step \/ Halt

Init == InitOn(SimImages)

Spec == Init /\ [][Next]_vars

\* the same loop on the long images too; the program is one thread that runs
\* until it exits or panics, so its next step is always taken
LongInit ==
    InitOn({Image(p) : p \in Programs(SimEncodings, MaxProgram - 1)}
               \cup LoopImages \cup LongImages)

FairSpec == LongInit /\ [][Next]_vars /\ WF_vars(Next)

(***************************************************************************)
(* CPU::exec on its own: one call on each CPU of a catalogue, with each    *)
(* instruction of a catalogue.                                             *)
(***************************************************************************)
\* the words within Edge of 0, 2^8, 2^15 and 2^16
EdgeValues ==
    {v \in UNION {(k - Edge)..(k + Edge) : k \in {0, 256, 32768, U16}} :
        v >= 0 /\ v < U16}

\* memory contents: all zero, or some bytes set around the addresses used
ExecMemories ==
    { <<>>,
      [a \in {0, 1, 2, 18, 19, 255, 256, 257, 258, 1000, 1001} |->
          IF a \in {1, 256, 1001} THEN 255 ELSE (a % 7) + 1] }

ExecCPUs ==
    {[memory |-> m,
      registers |-> [r \in Reg |-> CASE r = "A" -> a
                                     [] r = "B" -> b
                                     [] r = "BP" -> 16
                                     [] r = "SI" -> 2
                                     [] OTHER -> 0],
      flags |-> f] :
        a \in EdgeValues, b \in EdgeValues, m \in ExecMemories,
        f \in [Flag -> BOOLEAN]}

\* <<src, dst>> operand pairs
ExecOperands ==
    { <<Loc_Reg(RegIndex_BX), Loc_Reg(RegIndex_AX)>>,
      <<Loc_Reg(RegIndex_AX), Loc_Reg(RegIndex_AX)>>,
      <<Loc_Imm8(200), Loc_Reg(RegIndex_AX)>>,
      <<Loc_Imm16(65535), Loc_Reg(RegIndex_BX)>>,
      <<Loc_Imm16(1), Loc_Reg(RegIndex_AX)>>,
      <<Loc_EAC(EAC_new(EABase("Bx"), None)), Loc_Reg(RegIndex_AX)>>,
      <<Loc_Reg(RegIndex_AX), Loc_EAC(EAC_new(EABase("Bx"), None))>>,
      <<Loc_Reg(RegIndex_BX), Loc_EAC(EAC_new(DirectAddr(1000), None))>>,
      <<Loc_Imm16(1), Loc_EAC(EAC_new(EABase("BpSi"), Some(-1)))>>,
      <<Loc_Reg(RegIndex_AX), Loc_EAC(EAC_new(EABase("BxSi"), None))>>,
      <<Loc_EAC(EAC_new(EABase("Bx"), Some(-1))), Loc_Reg(RegIndex_AX)>>,
      <<Loc_Reg(RegIndex_AX), Loc_EAC(EAC_new(EABase("Bx"), Some(1)))>> }

ExecInstructions ==
    {Instruction_Mov(o[1], o[2]) : o \in ExecOperands}
        \cup {Instruction_Add(o[1], o[2]) : o \in ExecOperands}
        \cup {Instruction_Sub(o[1], o[2]) : o \in ExecOperands}
        \cup {Instruction_Cmp(o[1], o[2]) : o \in ExecOperands}
        \cup {Instruction_Jump(JumpType_ALL[k][1], off) :
                k \in 1..Len(JumpType_ALL), off \in {-3, 5}}

ExecInit ==
    /\ bytes = Image(<<>>)
    /\ cpu \in ExecCPUs
    /\ pc = "exec"
    /\ inst = NoInst
    /\ num_bytes = 0
    /\ jump_offset = 0
    /\ stream = Cursor_new(0, FALSE)
    /\ stream_pc = "run"
    /\ listing = <<>>
    /\ fetch_at = 0
    /\ fetched = <<>>
    /\ NoConsole

\* let jump_offset = cpu.exec(inst)
Exec ==
    /\ pc = "exec"
    /\ \E i \in ExecInstructions :
          \E r \in {exec(cpu, i)} :
             /\ pc' = IF r.ok THEN "executed" ELSE "panic"
             /\ cpu' = r.cpu
             /\ inst' = i
             /\ jump_offset' = r.ret
    /\ UNCHANGED <<bytes, num_bytes, stream, stream_pc, listing, fetch_at, fetched, console>>

ExecSpec == ExecInit /\ [][Exec]_vars

(***************************************************************************)
(* Decoding on its own: decode mode's single pass of decode_stream over    *)
(* the image, and decode_first_at called at offset 0 and then at each      *)
(* offset plus the returned length, side by side on one image.             *)
(***************************************************************************)
DecodeEncodings ==
    { <<137, 216>>,                  \* mov ax, bx
      <<137, 139, 135, 19>>,         \* mov [bp + di + 4999], cx
      <<136, 110, 0>>,               \* mov [bp], ch
      <<139, 30, 16, 0>>,            \* mov bx, [16]
      <<184, 1, 0>>,                 \* mov ax, 1
      <<177, 12>>,                   \* mov cl, 12
      <<161, 251, 9>>,               \* mov ax, [2555]
      <<163, 251, 9>>,               \* mov [2555], ax
      <<198, 7, 7>>,                 \* mov [bx], byte 7
      <<199, 130, 0, 16, 91, 1>>,    \* mov [bp + si + 4096], word 347
      <<3, 24>>,                     \* add bx, [bx + si]
      <<5, 232, 3>>,                 \* add ax, 1000
      <<44, 5>>,                     \* sub al, 5
      <<57, 216>>,                   \* cmp ax, bx
      <<131, 71, 4, 255>>,           \* add [bx + 4], word -1
      <<129, 6, 232, 3, 44, 1>>,     \* add [1000], word 300
      <<128, 63, 1>>,                \* cmp [bx], byte 1
      <<117, 2>>,                    \* jnz $+4
      <<116, 254>>,                  \* je $+0
      <<226, 137>>,                  \* loop $-117
      <<240>> }                      \* no recognizer's byte

\* the catalogue, and two images whose last instruction is cut short
DecodeImages ==
    {Image(p) : p \in Programs(DecodeEncodings, MaxDecode)}
        \cup {Image(<<184, 1>>), Image(<<137, 216, 199, 130, 0>>)}

DecodeInit ==
    /\ bytes \in DecodeImages
    /\ cpu = CPU_new
    /\ pc = "run"
    /\ inst = NoInst
    /\ num_bytes = 0
    /\ jump_offset = 0
    /\ stream = Cursor_new(0, FALSE)
    /\ stream_pc = "run"
    /\ listing = <<>>
    /\ fetch_at = 0
    /\ fetched = <<>>
    /\ NoConsole

\* decode mode: one turn of  for inst in decode_stream(&mut bytes.into_iter())
StreamNext ==
    /\ stream_pc = "run"
    /\ \E r \in {decode_stream(bytes, stream)} :
          /\ stream_pc' = CASE r.st = "some" -> "run"
                            [] r.st = "end" -> "end"
                            [] r.st = "panic" -> "panic"
          /\ listing' = IF r.st = "some" THEN Append(listing, r.inst) ELSE listing
          /\ stream' = r.c
    /\ UNCHANGED <<bytes, cpu, pc, inst, num_bytes, jump_offset, fetch_at, fetched, console>>

\* the simulate loop's fetch, the jump offset taken as 0:
\*   let (inst, num_bytes) = decode_first_at(&bytes, ip);  ip += num_bytes
FetchNext ==
    /\ pc = "run"
    /\ fetch_at < bytes.len
    /\ \E d \in {decode_first_at(bytes, fetch_at)} :
          IF d.ok
          THEN /\ fetched' = Append(fetched, [inst |-> d.inst, at |-> fetch_at,
                                              num_bytes |-> d.num_bytes])
               /\ fetch_at' = fetch_at + d.num_bytes
               /\ inst' = d.inst
               /\ num_bytes' = d.num_bytes
               /\ pc' = "run"
          ELSE /\ pc' = "panic"
               /\ UNCHANGED <<fetched, fetch_at, inst, num_bytes>>
    /\ UNCHANGED <<bytes, cpu, jump_offset, stream, stream_pc, listing, console>>

\* the loop's exit
FetchEnd ==
    /\ pc = "run"
    /\ ~(fetch_at < bytes.len)
    /\ pc' = "done"
    /\ UNCHANGED <<bytes, cpu, inst, num_bytes, jump_offset, stream, stream_pc,
                   listing, fetch_at, fetched, console>>

DecodeNext == StreamNext \/ FetchNext \/ FetchEnd

DecodeSpec == DecodeInit /\ [][DecodeNext]_vars

(***************************************************************************)
(* Decode mode as main runs it: "bits 16", then for each instruction of    *)
(* decode_stream its text and, with -cycle-estimate, its estimate and the  *)
(* running total; the total once more at the end.                          *)
(***************************************************************************)
\* the bytes after the first two of a probed image
ListTail == <<246, 255, 0, 128>>

\* mov si, [base + d] with a 16-bit displacement at the edges of i16, and
\* mov si, [bp] as the bytes 8B 76 00
DisplacementImages ==
    {Image(<<139, 176 + r_m, d % 256, d \div 256>>) : r_m \in 0..7, d \in EdgeValues}
        \cup {Image(<<139, 118, 0>>)}

\* every first byte with every second byte, and the displacement images
ListImages ==
    {Image(<<b0, b1>> \o ListTail) : b0 \in 0..255, b1 \in 0..255}
        \cup DisplacementImages

ListInit ==
    /\ bytes \in ListImages
    /\ cpu = CPU_new
    /\ pc = "run"
    /\ inst = NoInst
    /\ num_bytes = 0
    /\ jump_offset = 0
    /\ stream = Cursor_new(0, FALSE)
    /\ stream_pc = "run"
    /\ listing = <<>>
    /\ fetch_at = 0
    /\ fetched = <<>>
    /\ is_cycle_estimate \in BOOLEAN
    /\ output = <<"bits 16">>
    /\ total = 0
    /\ panic_message = ""

\* format!("{:b}", n)
binary(n) ==
    LET digits[k \in 0..n] == IF k < 2 THEN ToString(k) ELSE digits[k \div 2] \o ToString(k % 2)
    IN  digits[n]

\* the message of the panic r that decoding at peeked byte ended in
decode_panic_message(r, byte) ==
    CASE r.why = "no_match" -> "0b" \o binary(byte)
      [] r.why = "unreachable" ->
            "internal error: entered unreachable code: not handling Direct Address "
                \o "from this function, should have used parse_rm_direct_addr"
      [] OTHER -> "called Option::unwrap() on a None value"

\* what the loop body leaves: [ok, output, total, message]
ListOutcome(ok, out, tot, message) ==
    [ok |-> ok, output |-> out, total |-> tot, message |-> message]

\* the line of an instruction printed as text with estimate e
estimated(text, e, out, tot) ==
    IF ~e.ok THEN ListOutcome(FALSE, Append(out, text), tot, e.message)
    ELSE ListOutcome(TRUE,
                     Append(out, text \o " ; +" \o ToString(e.val) \o " = "
                                      \o ToString(tot + e.val)),
                     tot + e.val, "")

\* the loop body for the decoded instruction i
list_instruction(i, estimate, out, tot) ==
    {IF ~a.ok THEN ListOutcome(FALSE, out, tot, a.text)
     ELSE IF ~estimate THEN ListOutcome(TRUE, Append(out, a.text), tot, "")
     ELSE estimated(a.text, estimate_8086(i, a.text), out, tot) :
        a \in Instruction_asm(i)}

\* the loop body after the stream gave r at peeked byte
list_body(r, byte, estimate, out, tot) ==
    IF r.st = "some" THEN list_instruction(r.inst, estimate, out, tot)
    ELSE {ListOutcome(FALSE, out, tot, decode_panic_message(r, byte))}

\* one turn of  for inst in decode_stream(..) { print; estimate }
ListNext ==
    /\ stream_pc = "run"
    /\ \E p \in {Peekable_peek(bytes, stream)} :
          /\ p.item # None
          /\ \E r \in {decode_stream(bytes, stream)} :
                \E o \in list_body(r, p.item[1], is_cycle_estimate, output, total) :
                   /\ stream_pc' = IF o.ok THEN "run" ELSE "panic"
                   /\ listing' = IF r.st = "some" THEN Append(listing, r.inst) ELSE listing
                   /\ stream' = r.c
                   /\ output' = o.output
                   /\ total' = o.total
                   /\ panic_message' = o.message
    /\ UNCHANGED <<bytes, cpu, pc, inst, num_bytes, jump_offset, fetch_at, fetched,
                   is_cycle_estimate>>

\* the stream is over: the total is printed
ListEnd ==
    /\ stream_pc = "run"
    /\ \E r \in {decode_stream(bytes, stream)} :
          /\ r.st = "end"
          /\ stream' = r.c
    /\ stream_pc' = "end"
    /\ output' = IF is_cycle_estimate
                 THEN output \o <<"", "Total cycles: " \o ToString(total)>>
                 ELSE output
    /\ UNCHANGED <<bytes, cpu, pc, inst, num_bytes, jump_offset, listing, fetch_at, fetched,
                   is_cycle_estimate, total, panic_message>>

ListStep == ListNext \/ ListEnd

ListSpec == ListInit /\ [][ListStep]_vars

\* simulate mode's loop on the listing's images too: every first byte with
\* every second byte
RunInit == InitOn(SimImages \cup ListImages)

RunSpec == RunInit /\ [][Next]_vars

(***************************************************************************)
(* The standalone decoder, perfaware/part1/decoder.rs: Mov, Add and Sub    *)
(* only, each recognizer returning the text that main prints.  Its         *)
(* parse_reg_field, parse_r_m_field, parse_imm_to_reg, parse_mem_to_acc,   *)
(* parse_acc_to_mem, consume_u16, consume_i16, BinopParams::from and asm   *)
(* methods have the text of the simulator's, and the model uses the one    *)
(* definition for both; what differs is defined here.                      *)
(***************************************************************************)
\* BinOpCode::find over ALL = [Add, Sub]
decoder_BinOpCode_find(binop) == find_in(<< <<"Add", 0>>, <<"Sub", 5>> >>, binop)

\* the match on mod_bits in decoder.rs's parse_imm_to_r_m: [ok, loc, c]
decoder_r_m_loc(img, c, mod_bits, r_m_bits, w) ==
    LET loc(mod, r_m) ==
            CASE mod = 3 ->
                    [ok |-> TRUE, loc |-> Loc_Reg(parse_reg_field(r_m, w)), c |-> c]
              [] mod = 0 -> plain_loc(r_m, c)
              [] mod = 1 ->
                    CHOOSE x \in {disp_loc(r_m, signed8(b)) :
                                    b \in {next_unwrap(img, c)}} : TRUE
              [] mod = 2 ->
                    CHOOSE x \in {disp_loc(r_m, d) : d \in {consume_i16(img, c)}} : TRUE
    IN  CHOOSE x \in {loc(mod, r_m) : mod \in {mod_bits}, r_m \in {r_m_bits}} : TRUE

decoder_parse_imm_to_r_m(img, c, b) ==
    LET is_mov == b \div (2 ^ (8 - MOV_OPCODE_LEN)) = MOV_OPCODE
        is_other_imm_to_r_m == b \div (2 ^ (8 - IMM_TO_R_M_OPCODE_LEN)) = IMM_TO_R_M_OPCODE
        finish(oks, binop, r_m_loc, src) ==
            build(c, oks /\ r_m_loc.ok /\ src.ok, BinopParams_from(is_mov, binop),
                  src.loc, r_m_loc.loc, src.c)
        immediate(oks, w, s, binop, r_m_loc) ==
            CHOOSE x \in {finish(oks, binop, r_m_loc, src) :
                            src \in {imm_to_r_m_src(img, r_m_loc.c, w, s)}} : TRUE
        operand(oks, w, s, b1) ==
            IF oks /\ b1.ok /\ BitAnd(b1.val, 192) = 0 /\ BitAnd(b1.val, 7) = 6
            THEN ParsePanic("unreachable", c)
            ELSE CHOOSE x \in {immediate(oks /\ b1.ok, w, s,
                                         decoder_BinOpCode_find(BitAnd(b1.val \div 8, 7)),
                                         r_m_loc) :
                                 r_m_loc \in {decoder_r_m_loc(img, b1.c,
                                                              BitAnd(b1.val, 192) \div 64,
                                                              BitAnd(b1.val, 7), w)}} : TRUE
        second(b0) ==
            CHOOSE x \in {operand(b0.ok, BitAnd(b0.val, 1) # 0,
                                   ~is_mov /\ BitAnd(b0.val, 2) # 0, b1) :
                            b1 \in {next_unwrap(img, b0.c)}} : TRUE
    IN  IF ~is_mov /\ ~is_other_imm_to_r_m THEN ParseNone(c)
        ELSE CHOOSE x \in {second(b0) : b0 \in {next_unwrap(img, c)}} : TRUE

\* decoder.rs's parse_r_m_to_r_m: its body is the simulator's
decoder_parse_r_m_to_r_m(img, c, b) ==
    CHOOSE x \in {r_m_to_r_m(img, c, b, (b \div 4) = 34, binop) :
                    binop \in {IF BitAnd(49, b \div 4) = 0
                               THEN decoder_BinOpCode_find(BitAnd(b \div 8, 7))
                               ELSE None}} : TRUE

\* parse_imm_to_acc and the Add { src, dst } or Sub { src, dst } main makes
decoder_parse_imm_to_acc(img, c, op) ==
    LET finish(b0, w, src) ==
            build(c, b0.ok /\ src.ok, [ok |-> TRUE, params |-> op],
                  src.loc, Loc_Reg(RegIndex_acc(w)), src.c)
        immediate(b0, w) ==
            CHOOSE x \in {finish(b0, w, src) : src \in {imm_by_width(img, b0.c, w)}} : TRUE
        first(b0) == immediate(b0, BitAnd(b0.val, 1) # 0)
    IN  CHOOSE x \in {first(b0) : b0 \in {next_unwrap(img, c)}} : TRUE

\* the if / else if chain of decoder.rs's main
decoder_main_chain(img, c, byte) ==
    or_else(decoder_parse_imm_to_r_m(img, c, byte),
    or_else(decoder_parse_r_m_to_r_m(img, c, byte),
    or_else(decode_mov(img, c, byte),
            IF byte \div 2 = 2 THEN decoder_parse_imm_to_acc(img, c, "Add")
            ELSE IF byte \div 2 = 22 THEN decoder_parse_imm_to_acc(img, c, "Sub")
            ELSE ParsePanic("no_match", c))))

DecoderInit ==
    /\ bytes \in ListImages
    /\ cpu = CPU_new
    /\ pc = "run"
    /\ inst = NoInst
    /\ num_bytes = 0
    /\ jump_offset = 0
    /\ stream = Cursor_new(0, FALSE)
    /\ stream_pc = "run"
    /\ listing = <<>>
    /\ fetch_at = 0
    /\ fetched = <<>>
    /\ is_cycle_estimate = FALSE
    /\ output = <<"bits 16">>
    /\ total = 0
    /\ panic_message = ""

\* one turn of  while let Some(&byte) = bytes.peek() { .. println!("{}", asm) }
DecoderNext ==
    /\ stream_pc = "run"
    /\ \E p \in {Peekable_peek(bytes, stream)} :
          /\ p.item # None
          /\ \E r \in {decoder_main_chain(bytes, p.c, p.item[1])} :
                \E o \in list_body(r, p.item[1], FALSE, output, total) :
                   /\ stream_pc' = IF o.ok THEN "run" ELSE "panic"
                   /\ listing' = IF r.st = "some" THEN Append(listing, r.inst) ELSE listing
                   /\ stream' = r.c
                   /\ output' = o.output
                   /\ panic_message' = o.message
    /\ UNCHANGED <<bytes, cpu, pc, inst, num_bytes, jump_offset, fetch_at, fetched,
                   is_cycle_estimate, total>>

\* the peek finds no byte: main returns
DecoderEnd ==
    /\ stream_pc = "run"
    /\ \E p \in {Peekable_peek(bytes, stream)} :
          /\ p.item = None
          /\ stream' = p.c
    /\ stream_pc' = "end"
    /\ UNCHANGED <<bytes, cpu, pc, inst, num_bytes, jump_offset, listing, fetch_at, fetched,
                   console>>

DecoderStep == DecoderNext \/ DecoderEnd

DecoderSpec == DecoderInit /\ [][DecoderStep]_vars

(***************************************************************************)
(* What the instruction descriptions say, stated on operand values.        *)
(***************************************************************************)
\* the 16-bit value of an operand on CPU c: an immediate as written (Imm8
\* zero-extended), a register word, a little-endian memory word
ValueAt(c, loc) ==
    CASE loc.kind \in {"Imm8", "Imm16"} -> loc.n
      [] loc.kind = "Reg" -> c.registers[loc.reg.register]
      [] loc.kind = "EAC" ->
            mem_byte(c.memory, eac_offset(c, loc.eac).val)
                + 256 * mem_byte(c.memory, eac_offset(c, loc.eac).val + 1)

\* the flags of a 16-bit result tmp and carry
FlagsOf(tmp, carry) ==
    [f \in Flag |->
        CASE f = "Zero" -> tmp = 0
          [] f = "Sign" -> Bit(tmp, 15) = 1
          [] f = "Parity" -> Cardinality({i \in 0..7 : Bit(tmp, i) = 1}) % 2 = 0
          [] f = "Carry" -> carry]

\* c and d differ at most in the word operand loc names
SameButAt(c, d, loc) ==
    /\ \A r \in Reg : (loc.kind = "Reg" /\ loc.reg.register = r) \/
                      d.registers[r] = c.registers[r]
    /\ \A a \in DOMAIN c.memory \cup DOMAIN d.memory :
          \/ /\ loc.kind = "EAC"
             /\ a \in {eac_offset(c, loc.eac).val, eac_offset(c, loc.eac).val + 1}
          \/ mem_byte(d.memory, a) = mem_byte(c.memory, a)

\* the jump kinds whose condition reads only the flags P, Z, S, C, and the
\* condition of each
FlagJumps == {"Jb", "Jnb", "Je", "Jnz", "Jbe", "Ja", "Js", "Jns", "Jp", "Jnp"}

JumpCondition(typ, flags) ==
    CASE typ = "Jb" -> flags["Carry"]
      [] typ = "Jnb" -> ~flags["Carry"]
      [] typ = "Je" -> flags["Zero"]
      [] typ = "Jnz" -> ~flags["Zero"]
      [] typ = "Jbe" -> flags["Carry"] \/ flags["Zero"]
      [] typ = "Ja" -> ~flags["Carry"] /\ ~flags["Zero"]
      [] typ = "Js" -> flags["Sign"]
      [] typ = "Jns" -> ~flags["Sign"]
      [] typ = "Jp" -> flags["Parity"]
      [] typ = "Jnp" -> ~flags["Parity"]

(***************************************************************************)
(* Properties of CPU::exec (under ExecSpec).                               *)
(***************************************************************************)
\* C3: Cmp{src, dst} computes what Sub{src, dst} computes: after it the four
\* flags are those of tmp = dst - src with Carry the borrow of dst - src, the
\* same as Sub leaves from the same state, and no register or memory byte
\* has changed.
C3_CmpAsSub ==
    [][ (pc' = "executed" /\ inst'.op = "Cmp") =>
          /\ cpu'.flags = FlagsOf((ValueAt(cpu, inst'.dst) - ValueAt(cpu, inst'.src)) % U16,
                                  ValueAt(cpu, inst'.dst) < ValueAt(cpu, inst'.src))
          /\ cpu'.flags = exec(cpu, Instruction_Sub(inst'.src, inst'.dst)).cpu.flags
          /\ cpu'.registers = cpu.registers
          /\ cpu'.memory = cpu.memory ]_vars

\* C4: Add{src, dst} stores tmp = (dst + src) mod 2^16 into dst, sets Zero,
\* Sign, Parity from tmp and Carry = (dst + src >= 2^16), changes nothing
\* else, and returns jump offset 0.
C4_Add ==
    [][ (pc' = "executed" /\ inst'.op = "Add") =>
          /\ ValueAt(cpu', inst'.dst)
                = (ValueAt(cpu, inst'.dst) + ValueAt(cpu, inst'.src)) % U16
          /\ cpu'.flags = FlagsOf((ValueAt(cpu, inst'.dst) + ValueAt(cpu, inst'.src)) % U16,
                                  ValueAt(cpu, inst'.dst) + ValueAt(cpu, inst'.src) >= U16)
          /\ SameButAt(cpu, cpu', inst'.dst)
          /\ jump_offset' = 0 ]_vars

\* an Add that wrapped to zero with a carry has been executed
C4_Witness ==
    /\ pc = "executed" /\ inst.op = "Add"
    /\ cpu.flags = [f \in Flag |-> f # "Sign"]
    /\ ValueAt(cpu, inst.dst) = 0

\* C5: Sub{src, dst} stores tmp = (dst - src) mod 2^16 into dst, sets Zero,
\* Sign, Parity from tmp as Add does and Carry = (dst < src), the borrow.
C5_Sub ==
    [][ (pc' = "executed" /\ inst'.op = "Sub") =>
          /\ ValueAt(cpu', inst'.dst)
                = (ValueAt(cpu, inst'.dst) - ValueAt(cpu, inst'.src)) % U16
          /\ cpu'.flags = FlagsOf((ValueAt(cpu, inst'.dst) - ValueAt(cpu, inst'.src)) % U16,
                                  ValueAt(cpu, inst'.dst) < ValueAt(cpu, inst'.src))
          /\ SameButAt(cpu, cpu', inst'.dst)
          /\ jump_offset' = 0 ]_vars

\* a Sub that borrowed (0 - 1 = 65535) has been executed into memory
C5_Witness ==
    /\ pc = "executed" /\ inst.op = "Sub" /\ inst.dst.kind = "EAC"
    /\ cpu.flags = [f \in Flag |-> f \in {"Carry", "Sign", "Parity"}]
    /\ ValueAt(cpu, inst.dst) = U16 - 1

\* C6: Mov{src, dst} sets dst to the 16-bit value of src (Imm8 zero-extended,
\* Imm16 as is, register word, little-endian memory word), leaves the four
\* flags and every register and memory byte outside the destination word
\* unchanged, and returns jump offset 0.
C6_Mov ==
    [][ (pc' = "executed" /\ inst'.op = "Mov") =>
          /\ ValueAt(cpu', inst'.dst) = ValueAt(cpu, inst'.src)
          /\ cpu'.flags = cpu.flags
          /\ SameButAt(cpu, cpu', inst'.dst)
          /\ jump_offset' = 0 ]_vars

\* a Mov of an Imm8 above 127 has been executed, and a Mov into memory
C6_Witness ==
    /\ pc = "executed" /\ inst.op = "Mov"
    /\ \/ inst.src.kind = "Imm8" /\ inst.src.n >= 128 /\ cpu.registers["A"] = inst.src.n
       \/ inst.dst.kind = "EAC" /\ ValueAt(cpu, inst.dst) >= 256

\* C7: for each jump kind that reads only P, Z, S, C and every flag state,
\* exec returns the displacement exactly when the kind's condition holds,
\* 0 otherwise, and changes no register, flag or memory byte.
C7_FlagJumps ==
    [][ (pc = "exec" /\ inst'.op = "Jump" /\ inst'.typ \in FlagJumps) =>
          /\ pc' = "executed"
          /\ jump_offset' = IF JumpCondition(inst'.typ, cpu.flags)
                            THEN inst'.offset ELSE 0
          /\ cpu' = cpu ]_vars

(***************************************************************************)
(* Properties of decoding (under DecodeSpec).                              *)
(***************************************************************************)
\* the displacement bytes of a MOD/R/M byte
DispLength(modrm) ==
    CASE modrm \div 64 = 0 -> IF modrm % 8 = 6 THEN 2 ELSE 0
      [] modrm \div 64 = 1 -> 1
      [] modrm \div 64 = 2 -> 2
      [] modrm \div 64 = 3 -> 0

\* the length of the encoding that starts with opcode byte b0 and second
\* byte b1, by the instruction formats: opcode, MOD/R/M byte, displacement
\* or direct address, immediate
FormatLength(b0, b1) ==
    CASE b0 \in (112..127) \cup (224..227) -> 2
      [] b0 \in 176..183 -> 2
      [] b0 \in 184..191 -> 3
      [] b0 \in 160..163 -> 3
      [] b0 \in 136..139 -> 2 + DispLength(b1)
      [] b0 \in {198, 199} -> 2 + DispLength(b1) + (IF b0 = 199 THEN 2 ELSE 1)
      [] b0 \in 128..131 -> 2 + DispLength(b1) + (IF b0 = 129 THEN 2 ELSE 1)
      [] b0 < 64 /\ b0 % 8 \in 0..3 -> 2 + DispLength(b1)
      [] b0 < 64 /\ b0 % 8 = 4 -> 2
      [] b0 < 64 /\ b0 % 8 = 5 -> 3

EncodingLength(img, at) == FormatLength(ByteAt(img, at), ByteAt(img, at + 1))

\* C9: the byte count decode_first_at returns with an instruction is the
\* length of that instruction's encoding (mov ax, bx: 2; mov [bp + di +
\* 4999], cx: 4; a jump: 2), and so never includes a byte of the instruction
\* that follows: the next fetch starts right after the encoding.
C9_ByteCount ==
    \A i \in 1..Len(fetched) :
        /\ fetched[i].num_bytes = EncodingLength(bytes, fetched[i].at)
        /\ fetched[i].at + fetched[i].num_bytes <= bytes.len
        /\ fetched[i].at = IF i = 1 THEN 0
                           ELSE fetched[i - 1].at + EncodingLength(bytes, fetched[i - 1].at)
        /\ fetched[i].inst.op = "Jump" => fetched[i].num_bytes = 2
        /\ fetched[i].inst = Instruction_Mov(Loc_Reg(RegIndex_BX), Loc_Reg(RegIndex_AX))
              => fetched[i].num_bytes = 2

\* mov [bp + di + 4999], cx was fetched with count 4 and the instruction
\* after it was fetched too
C9_Witness ==
    /\ Len(fetched) = 2
    /\ fetched[1].inst = Instruction_Mov(Loc_Reg(RegIndex_CX),
                                         Loc_EAC(EAC_new(EABase("BpDi"), Some(4999))))
    /\ fetched[1].num_bytes = 4
    /\ fetched[2].at = 4

\* C10: on one image the streaming pass and the repeated decode_first_at
\* produce the same instructions in the same order: each is a prefix of the
\* other all along, one fails exactly if the other does, and for an image
\* that decodes completely the two sequences are equal.
C10_SameSequence ==
    /\ \A i \in 1..Len(listing) : i <= Len(fetched) => listing[i] = fetched[i].inst
    /\ (stream_pc = "end" /\ pc \in {"done", "panic"})
          => (pc = "done" /\ Len(listing) = Len(fetched))
    /\ (pc = "done" /\ stream_pc \in {"end", "panic"})
          => (stream_pc = "end" /\ Len(listing) = Len(fetched))
    /\ (stream_pc = "panic" /\ pc = "panic") => Len(listing) = Len(fetched)

\* both passes finished an image of two different instructions
C10_Witness ==
    /\ stream_pc = "end" /\ pc = "done"
    /\ Len(listing) = 2 /\ Len(fetched) = 2
    /\ listing[1] # listing[2]
    /\ listing[1].op = "Jump"

(***************************************************************************)
(* Properties of the simulate loop (under Spec and FairSpec).              *)
(***************************************************************************)
\* what one iteration of the loop does besides moving IP: the instruction
\* at IP is decoded with its encoding's length, exec leaves IP alone, and
\* the offset it returns is the displacement of a taken jump, else 0
IterationFacts ==
    /\ inst' = decode_first_at(bytes, ip(cpu)).inst
    /\ num_bytes' = EncodingLength(bytes, ip(cpu))
    /\ ip(exec(cpu, inst').cpu) = ip(cpu)
    /\ jump_offset' = IF inst'.op = "Jump" /\ JumpCondition(inst'.typ, cpu.flags)
                      THEN inst'.offset ELSE 0

\* C1: in every iteration of the loop IP_after is IP_before + length after a
\* non-jump or a jump not taken, and IP_before + length + offset after a
\* taken jump, in 16 bits: the sum modulo 2^16.  exec never changes IP.
C1_IpAdvance ==
    [][ (pc = "run" /\ pc' = "run") =>
          /\ IterationFacts
          /\ ip(cpu') = (ip(cpu) + num_bytes' + jump_offset') % U16 ]_vars

\* C1 as stated: IP_after is the sum itself.
C1_IpAdvanceExact ==
    [][ (pc = "run" /\ pc' = "run") =>
          /\ IterationFacts
          /\ ip(cpu') = ip(cpu) + num_bytes' + jump_offset' ]_vars

\* a taken backward jump has moved IP below 0, to 65535
C1_Witness ==
    /\ pc = "run" /\ inst.op = "Jump"
    /\ jump_offset = -3 /\ num_bytes = 2
    /\ ip(cpu) = U16 - 1

\* the loop stops, or has decoded a jump
StopsOrJumps == <>(pc # "run" \/ inst.op = "Jump")

\* C2: the loop starts from the all-zero CPU, runs an iteration only while
\* IP < image length and exits at the first state with IP >= image length;
\* on an image shorter than 2^16 bytes in which it meets no jump it stops
\* in the end, by the exit or by a fatal error.
C2_RunsToTheEnd ==
    /\ cpu = CPU_new
    /\ [][ (pc = "run" /\ pc' = "run") => ip(cpu) < bytes.len ]_vars
    /\ [][ (pc = "run" /\ ~(ip(cpu) < bytes.len)) => (pc' = "done" /\ cpu' = cpu) ]_vars
    /\ [](pc = "done" => ip(cpu) >= bytes.len)
    /\ (bytes.len < U16 => StopsOrJumps)

\* C2 as stated: on every image in which it meets no jump the loop stops.
C2_AlwaysStops ==
    /\ cpu = CPU_new
    /\ [](pc = "done" => ip(cpu) >= bytes.len)
    /\ StopsOrJumps

\* the loop ran through an image of 2^16 - 1 bytes up to its cut last
\* instruction and stopped there
C2_Witness ==
    /\ bytes.len = U16 - 1
    /\ pc = "panic" /\ inst.op = "Add"
    /\ ip(cpu) = U16 - 4

\* the registers and flags the scenario ends with
ScenarioRegisters ==
    [r \in Reg |-> CASE r = "A" -> 3 [] r = "B" -> 2 [] r = "IP" -> 8 [] OTHER -> 0]

\* C8: the image B8 01 00 BB 02 00 01 D8 run from the zeroed CPU halts with
\* AX = 3, BX = 2, IP = 8, the other registers 0, and of the flags only
\* Parity asserted (3 has two 1 bits).
C8_Scenario ==
    (bytes = ScenarioImage /\ pc # "run") =>
        /\ pc = "done"
        /\ cpu.registers = ScenarioRegisters
        /\ cpu.flags = [f \in Flag |-> f = "Parity"]

\* C8 as stated: none of the flags asserted.
C8_ScenarioNoFlags ==
    (bytes = ScenarioImage /\ pc # "run") =>
        /\ pc = "done"
        /\ cpu.registers = ScenarioRegisters
        /\ cpu.flags = [f \in Flag |-> FALSE]

\* the scenario has halted after its add
C8_Witness ==
    /\ bytes = ScenarioImage /\ pc = "done"
    /\ inst = Instruction_Add(Loc_Reg(RegIndex_BX), Loc_Reg(RegIndex_AX))

(***************************************************************************)
(* Properties of decode mode (under ListSpec).                             *)
(***************************************************************************)
\* the first instruction of the image has been listed and nothing after it
FirstListed == stream_pc = "run" /\ Len(listing) = 1

\* C11: in an immediate-to-R/M instruction (first byte 1000_00sw or
\* 1100_011w) the immediate follows the R/M operand as two little-endian
\* bytes giving Imm16 when W=1 and S=0, as one byte sign-extended giving
\* Imm16 when W=1 and S=1 (1000_0011 with immediate byte 0xF6: Imm16 0xFFF6),
\* as one byte giving Imm8 when W=0; for Mov S counts as 0, so W=1 reads two
\* bytes.
C11_Immediate ==
    (FirstListed /\ bytes.pat[1] \in (128..131) \cup {198, 199}) =>
        LET b0 == bytes.pat[1]
            at == 3 + DispLength(bytes.pat[2])
            w == b0 % 2 = 1
            s == b0 \in {130, 131}
            lo == bytes.pat[at]
            hi == bytes.pat[at + 1]
        IN  /\ (w /\ ~s) => /\ listing[1].src = Loc_Imm16(lo + 256 * hi)
                           /\ stream.pos = at + 1
            /\ (w /\ s) => /\ listing[1].src
                                = Loc_Imm16(IF lo >= 128 THEN 65280 + lo ELSE lo)
                          /\ stream.pos = at
            /\ ~w => /\ listing[1].src = Loc_Imm8(lo)
                     /\ stream.pos = at
            /\ (b0 = 131 /\ lo = 246) => listing[1].src = Loc_Imm16(65526)
            /\ b0 = 199 => /\ listing[1].src = Loc_Imm16(lo + 256 * hi)
                           /\ stream.pos = at + 1
            /\ listing[1].dst.kind \in {"Reg", "EAC"}

\* add ax, word 0xFFF6 was decoded from 83 C0 F6
C11_Witness ==
    /\ FirstListed
    /\ bytes.pat[1] = 131 /\ bytes.pat[2] = 192 /\ bytes.pat[3] = 246
    /\ listing[1] = Instruction_Add(Loc_Imm16(65526), Loc_Reg(RegIndex_AX))
    /\ stream.pos = 3

\* the first bytes of the six instruction formats
FirstBytes ==
    (128..131) \cup {198, 199}                      \* immediate to R/M
        \cup (136..139) \cup (0..3) \cup (40..43) \cup (56..59)  \* R/M to/from register
        \cup {4, 5, 44, 45, 60, 61}                 \* immediate to accumulator
        \cup (112..127) \cup (224..227)             \* jumps
        \cup (176..191)                             \* immediate to register
        \cup (160..163)                             \* memory/accumulator

\* the cursor of a running listing stands at a first byte no format has
UnmatchedAtCursor ==
    /\ stream_pc = "run"
    /\ stream.pos < bytes.len
    /\ ByteAt(bytes, stream.pos) \notin FirstBytes

\* the cursor of a running listing stands at 1000_00sw followed by a
\* sub-opcode other than 000, 101, 111
BadSubOpcodeAtCursor ==
    /\ stream_pc = "run"
    /\ stream.pos + 1 < bytes.len
    /\ ByteAt(bytes, stream.pos) \in 128..131
    /\ (ByteAt(bytes, stream.pos + 1) \div 8) % 8 \notin {0, 5, 7}

\* the step ends the listing in a panic whose message shows one of the
\* bytes at the cursor in binary, and lists and prints nothing
FatalReport ==
    /\ stream_pc' = "panic"
    /\ panic_message' \in {"0b" \o binary(ByteAt(bytes, stream.pos)),
                           "0b" \o binary(ByteAt(bytes, stream.pos + 1))}
    /\ listing' = listing
    /\ output' = output

\* C12: whenever the bytes at the cursor are not decodable (the first byte
\* matches none of the six recognizers, or 1000_00sw is followed by a
\* sub-opcode outside {000, 101, 111}), decoding ends in a fatal error that
\* reports the offending byte in binary, and no instruction is produced or
\* printed for it.
C12_FatalReport ==
    [][(UnmatchedAtCursor \/ BadSubOpcodeAtCursor) => FatalReport]_vars

\* a memory operand as the printer is said to render it
BracketText(eac) ==
    LET base == EABase_asm(eac.base)
        d == eac.displacement
    IN  IF d = None \/ d = Some(0) THEN "[" \o base \o "]"
        ELSE IF d[1] > 0 THEN "[" \o base \o " + " \o ToString(d[1]) \o "]"
        ELSE "[" \o base \o " - " \o ToString(-d[1]) \o "]"

\* the text of an operand: a memory operand as said, a register in lower
\* case, an immediate with its size
OperandText(loc) ==
    CASE loc.kind = "EAC" -> BracketText(loc.eac)
      [] loc.kind = "Reg" -> to_lowercase(loc.reg.mnemonic)
      [] loc.kind = "Imm8" -> "byte " \o ToString(loc.n)
      [] loc.kind = "Imm16" -> "word " \o ToString(loc.n)

\* the line of a two-operand instruction
LineText(i) ==
    (CASE i.op = "Mov" -> "mov" [] i.op = "Add" -> "add"
       [] i.op = "Sub" -> "sub" [] i.op = "Cmp" -> "cmp")
        \o " " \o OperandText(i.dst) \o ", " \o OperandText(i.src)

\* C13: a memory operand is printed as [base] when its displacement is None
\* or Some(0), as [base + N] when it is positive and as [base - |N|] when it
\* is negative, for every signed 16-bit displacement; the bytes 8B 76 00
\* print mov si, [bp].
C13_Brackets ==
    (/\ ~is_cycle_estimate
     /\ Len(listing) >= 1
     /\ listing[1].op # "Jump"
     /\ "EAC" \in {listing[1].src.kind, listing[1].dst.kind})
        => /\ Len(output) >= 2
           /\ output[2] = LineText(listing[1])
           /\ bytes.pat = <<139, 118, 0>> => output[2] = "mov si, [bp]"

\* the line of a jump: N is the integer 2 + offset
JumpText(jump) ==
    LET N == 2 + jump.offset
    IN  IF N >= 0 THEN Jump_mnemonic(jump.typ) \o " $+" \o ToString(N)
        ELSE Jump_mnemonic(jump.typ) \o " $" \o ToString(N)

\* C14: for every jump instruction and every offset in -128..127 the printer
\* outputs mnemonic $+N when N >= 0 and mnemonic $N when N < 0, N being the
\* integer 2 + offset (-126..129); printing never fails and never wraps N.
C14_JumpText ==
    (Len(listing) >= 1 /\ listing[1].op = "Jump")
        => /\ listing[1].offset \in -128..127
           /\ Len(output) >= 2
           /\ output[2] = JumpText(listing[1])

\* C15: the estimator gives Sub and Cmp the cost structure of Add: for
\* every pair of operand shapes for which the estimate of Add{src, dst} is
\* defined, the estimates of Sub{src, dst} and Cmp{src, dst} are defined and
\* are the same cycle count.  Stated on the first instruction listed with
\* -cycle-estimate: its estimate is the running total.
C15_SubCmpAsAdd ==
    (/\ is_cycle_estimate
     /\ Len(listing) = 1
     /\ Len(output) >= 2
     /\ listing[1].op \in {"Sub", "Cmp"})
        => LET add == estimate_8086(Instruction_Add(listing[1].src, listing[1].dst), "")
           IN  add.ok => /\ total = add.val
                         /\ panic_message \notin
                               {not_implemented(a.text).message :
                                   a \in Instruction_asm(listing[1])}

(***************************************************************************)
(* Properties of memory operands in execution (under ExecSpec).            *)
(***************************************************************************)
\* base_value of the base selectors: the wrapping 16-bit sum of the named
\* registers, or n
BaseValue(c, base) ==
    CASE base.tag = "DirectAddr" -> base.n
      [] base.tag = "BxSi" -> (c.registers["B"] + c.registers["SI"]) % U16
      [] base.tag = "BxDi" -> (c.registers["B"] + c.registers["DI"]) % U16
      [] base.tag = "BpSi" -> (c.registers["BP"] + c.registers["SI"]) % U16
      [] base.tag = "BpDi" -> (c.registers["BP"] + c.registers["DI"]) % U16
      [] base.tag = "Si" -> c.registers["SI"]
      [] base.tag = "Di" -> c.registers["DI"]
      [] base.tag = "Bx" -> c.registers["B"]
      [] base.tag = "Bp" -> c.registers["BP"]

\* the 16-bit linear address of a memory operand
LinearAddress(c, eac) ==
    (BaseValue(c, eac.base)
        + (IF eac.displacement = None THEN 0 ELSE eac.displacement[1])) % U16

\* the memory operands of the instruction just given to exec
MemoryOperands ==
    IF pc \in {"executed", "panic"} /\ inst.op \in {"Mov", "Add", "Sub", "Cmp"}
    THEN {loc \in {inst.src, inst.dst} : loc.kind = "EAC"}
    ELSE {}

\* C16: every memory operand read or written in execution resolves to the
\* address a = (base_value(base) + displacement) mod 2^16 of a 65 536-byte
\* memory: for every register state, base and displacement the access does
\* not fault, and it touches the bytes a and a+1, little-endian, whenever
\* a <= 65534.  Stated for the bases CPU::get_offset resolves, the touched
\* bytes for Mov.
C16_LinearAddress ==
    [][ \A loc \in MemoryOperands' :
          loc.eac.base.tag \in {"DirectAddr", "Bx", "Bp", "BpSi"} =>
             LET a == LinearAddress(cpu, loc.eac)
             IN  /\ pc' = "executed"
                 /\ (a <= 65534 /\ inst'.op = "Mov" /\ loc = inst'.src) =>
                       ValueAt(cpu', inst'.dst)
                          = mem_byte(cpu.memory, a) + 256 * mem_byte(cpu.memory, a + 1)
                 /\ (a <= 65534 /\ inst'.op = "Mov" /\ loc = inst'.dst) =>
                       /\ mem_byte(cpu'.memory, a) = ValueAt(cpu, inst'.src) % 256
                       /\ mem_byte(cpu'.memory, a + 1) = ValueAt(cpu, inst'.src) \div 256
      ]_vars

\* base_value(base) + displacement without the wrap
PlainSum(c, eac) ==
    BaseValue(c, eac.base) + (IF eac.displacement = None THEN 0 ELSE eac.displacement[1])

\* C17: base_value is defined for each of the nine base selectors the
\* decoder produces (BX+SI, BX+DI, BP+SI, BP+DI, SI, DI, BX, BP,
\* DirectAddr(n)) as the wrapping 16-bit sum of the named registers (or n),
\* and executing an instruction with any of these memory operands never
\* fails in base resolution.  Stated where the two bytes at base_value +
\* displacement lie inside the memory array, so that the access itself
\* cannot fail.
C17_BaseValue ==
    [][ \A loc \in MemoryOperands' :
          (PlainSum(cpu, loc.eac) >= 0 /\ PlainSum(cpu, loc.eac) + 2 <= MEMORY_SIZE) =>
             /\ pc' = "executed"
             /\ (inst'.op = "Mov" /\ loc = inst'.dst) =>
                   /\ mem_byte(cpu'.memory, PlainSum(cpu, loc.eac))
                         = ValueAt(cpu, inst'.src) % 256
                   /\ mem_byte(cpu'.memory, PlainSum(cpu, loc.eac) + 1)
                         = ValueAt(cpu, inst'.src) \div 256
      ]_vars

(***************************************************************************)
(* Properties of the R/M operand (under DecoderSpec and ListSpec).         *)
(***************************************************************************)
\* the base of each R/M value when a displacement follows
RmBases == <<"BxSi", "BxDi", "BpSi", "BpDi", "Si", "Di", "Bp", "Bx">>

\* the R/M operand of the MOD/R/M byte pat[2] and the bytes after it
RmOperand(pat, w) ==
    LET mod == pat[2] \div 64
        rm == pat[2] % 8
    IN  CASE mod = 3 -> Loc_Reg(parse_reg_field(rm, w))
          [] mod = 0 /\ rm = 6 ->
                Loc_EAC([base |-> DirectAddr(pat[3] + 256 * pat[4]), displacement |-> None])
          [] mod = 0 /\ rm # 6 ->
                Loc_EAC([base |-> EABase(RmBases[rm + 1]), displacement |-> None])
          [] mod = 1 ->
                Loc_EAC([base |-> EABase(RmBases[rm + 1]),
                         displacement |-> Some(IF pat[3] >= 128 THEN pat[3] - 256 ELSE pat[3])])
          [] mod = 2 ->
                Loc_EAC([base |-> EABase(RmBases[rm + 1]),
                         displacement |->
                            Some(IF pat[4] >= 128 THEN pat[3] + 256 * pat[4] - U16
                                 ELSE pat[3] + 256 * pat[4])])

\* the first pass of the loop is over
FirstDone == ~(stream_pc = "run" /\ listing = <<>>)

\* the image starts with an immediate-to-R/M instruction of one of the
\* operations ops (sub-opcodes), or with a Mov
ImmToRmFirst(ops) ==
    \/ bytes.pat[1] \in {198, 199}
    \/ bytes.pat[1] \in 128..131 /\ (bytes.pat[2] \div 8) % 8 \in ops

\* the image starts with an R/M-to/from-register instruction of one of ops
RmRegFirst(ops) ==
    \/ bytes.pat[1] \in 136..139
    \/ bytes.pat[1] < 64 /\ bytes.pat[1] % 8 \in 0..3 /\ bytes.pat[1] \div 8 \in ops

\* the first instruction was decoded with the R/M operand of the table
RmFollowsTable(ops) ==
    /\ (FirstDone /\ ImmToRmFirst(ops)) =>
          /\ Len(listing) >= 1
          /\ listing[1].dst = RmOperand(bytes.pat, bytes.pat[1] % 2 = 1)
    /\ (FirstDone /\ RmRegFirst(ops)) =>
          /\ Len(listing) >= 1
          /\ (bytes.pat[1] \div 2) % 2 = 1 =>
                listing[1].src = RmOperand(bytes.pat, bytes.pat[1] % 2 = 1)
          /\ (bytes.pat[1] \div 2) % 2 = 0 =>
                listing[1].dst = RmOperand(bytes.pat, bytes.pat[1] % 2 = 1)

\* C18: in every recognizer that decodes a MOD/R/M byte (immediate-to-R/M
\* and R/M-to/from-register, here of the standalone decoder, operations Add
\* and Sub and Mov) the R/M operand follows the table for all 4 x 8 (MOD,
\* R/M) combinations: MOD=11 the register, MOD=00 with R/M=110 the direct
\* address of the next two bytes without displacement, other MOD=00 the
\* base without displacement, MOD=01 one byte sign-extended, MOD=10 two
\* little-endian bytes, R/M=110 meaning BP then; no combination is a decode
\* failure.
C18_RmTable == RmFollowsTable({0, 5})

(***************************************************************************)
(* Properties of the dispatcher (under ListSpec).                          *)
(***************************************************************************)
\* the six recognizers in the dispatcher's order: immediate-to-R/M,
\* R/M-to/from-register, immediate-to-accumulator, jump, immediate-to-
\* register Mov, memory/accumulator Mov (the last two are decode_mov's)
Recognizer(k, img, c, byte) ==
    CASE k = 1 -> parse_imm_to_r_m(img, c, byte)
      [] k = 2 -> parse_r_m_to_r_m(img, c, byte)
      [] k = 3 -> parse_imm_to_acc(img, c, byte)
      [] k = 4 -> try_parse_jump(img, c, byte)
      [] k = 5 -> IF byte \div 16 = 11 THEN decode_mov(img, c, byte) ELSE ParseNone(c)
      [] k = 6 -> IF byte \div 2 \in {80, 81} THEN decode_mov(img, c, byte) ELSE ParseNone(c)

\* the recognizers that accept the byte peeked at cursor c of image img
Accepting(img, c) ==
    LET p == Peekable_peek(img, c)
    IN  {k \in 1..6 : Recognizer(k, img, p.c, p.item[1]).st # "none"}

\* this step of the listing decodes with the first recognizer, in the fixed
\* order, that accepts the byte at the cursor
FirstMatchDecodes ==
    (stream_pc = "run" /\ stream.pos < bytes.len) =>
        LET p == Peekable_peek(bytes, stream)
            acc == Accepting(bytes, stream)
            first == CHOOSE k \in acc : \A j \in acc : k <= j
            r == Recognizer(first, bytes, p.c, p.item[1])
        IN  /\ acc = {} => (stream_pc' = "panic" /\ listing' = listing)
            /\ (acc # {} /\ r.st = "some") =>
                  (listing' = Append(listing, r.inst) /\ stream' = r.c)
            /\ (acc # {} /\ r.st = "panic") => (stream_pc' = "panic" /\ listing' = listing)

\* some first byte is accepted by more than one recognizer
OverlapExists ==
    \E b \in 0..255 :
        Cardinality(Accepting(Image(<<b, 0, 0, 0, 0, 0>>), Cursor_new(0, FALSE))) > 1

\* C19 as stated: the dispatcher tries the recognizers in the fixed order
\* and the first match decodes the instruction; the order is significant,
\* i.e. at least one first byte is accepted by more than one recognizer.
C19_OrderSignificant == [][FirstMatchDecodes /\ OverlapExists]_vars

\* C19, amended: the dispatcher tries the recognizers in the fixed order and
\* the first match decodes the instruction; no byte is accepted by more
\* than one recognizer, so the order is not significant.
C19_FirstMatch ==
    [][ /\ FirstMatchDecodes
        /\ (stream_pc = "run" /\ stream.pos < bytes.len) =>
              Cardinality(Accepting(bytes, stream)) <= 1 ]_vars

\* mov ax, imm16 was decoded by the fifth recognizer, the only one to accept
\* its first byte
C19_Witness ==
    /\ FirstListed
    /\ bytes.pat[1] = 184
    /\ listing[1] = Instruction_Mov(Loc_Imm16(bytes.pat[2] + 256 * bytes.pat[3]),
                                    Loc_Reg(RegIndex_AX))
    /\ Accepting(bytes, Cursor_new(0, FALSE)) = {5}

\* the memory operands of the instructions listed so far
ListedMemoryOperands ==
    UNION {{loc \in {listing[k].src, listing[k].dst} : loc.kind = "EAC"} :
             k \in {j \in 1..Len(listing) : listing[j].op # "Jump"}}

\* C20: every operand the decoder produces, for any input bytes, with base
\* DirectAddr has displacement None; hence the estimator's EA lookup never
\* reaches its "direct addr + displacement is impossible" failure on a
\* decoded instruction.
C20_DirectAddrNoDisplacement ==
    /\ \A loc \in ListedMemoryOperands :
          loc.eac.base.tag = "DirectAddr" => loc.eac.displacement = None
    /\ panic_message # "direct addr + displacement is impossible"

\* mov si, [65526] (8B 36 F6 FF) was listed with its estimate, 8 + 6 cycles
C20_Witness ==
    /\ is_cycle_estimate
    /\ FirstListed
    /\ bytes.pat[1] = 139 /\ bytes.pat[2] = 54
    /\ listing[1].src = Loc_EAC(EAC_new(DirectAddr(65526), None))
    /\ output[2] = "mov si, [65526] ; +14 = 14"
    /\ total = 14

\* exec(c, i) reaches set_dest's unreachable!(): the arm of i stores, its
\* operand reads succeeded, and the destination is an immediate
WritesToImmediate(c, i) ==
    /\ i.op \in {"Mov", "Add", "Sub"}
    /\ get_src(c, i.src).ok
    /\ i.op # "Mov" => get_src(c, i.dst).ok
    /\ set_dest_unreachable(i.dst)

\* C21: every instruction the decoder produces has a Register or Memory
\* destination, never Imm8 or Imm16; hence no iteration of the driver loop,
\* on the instruction decoded at IP, reaches the executor's write-to-immediate
\* branch.
C21_NoImmediateDestination ==
    /\ inst.op \in {"Mov", "Add", "Sub", "Cmp"} => inst.dst.kind \in {"Reg", "EAC"}
    /\ (pc = "run" /\ ip(cpu) < bytes.len) =>
          \A d \in {decode_first_at(bytes, ip(cpu))} :
              d.ok => /\ d.inst.op # "Jump" => d.inst.dst.kind \in {"Reg", "EAC"}
                      /\ ~WritesToImmediate(cpu, d.inst)

\* the loop executed mov ax, 1 (B8 01 00): the immediate was the source and
\* AX, the destination, holds it
C21_Witness ==
    /\ pc = "run"
    /\ bytes.len >= 3
    /\ bytes.pat[1] = 184
    /\ inst = Instruction_Mov(Loc_Imm16(1), Loc_Reg(RegIndex_AX))
    /\ get_src(cpu, Loc_Reg(RegIndex_AX)).val = 1
    /\ ip(cpu) = 3

====
